---- MODULE Spec2Model ----
(***************************************************************************)
(* einshape: the equation compiler (engine.generate_ops), the sequence     *)
(* optimizer (optimizer.optimize), the numpy realisation of the three      *)
(* shape ops and Backend.exec, as a state machine over one call.           *)
(*                                                                         *)
(* A Python str is modelled as a sequence of one-character strings, a dict *)
(* as a function, a list as a sequence.  Python positions are 0-based and  *)
(* are kept 0-based wherever the program stores them (perm, axis_sizes,    *)
(* the loop index j); sequences themselves are 1-based.                    *)
(***************************************************************************)
EXTENDS Integers, Sequences, FiniteSets, TLC

VARIABLES
  equation,              \* argument `equation` of generate_ops
  input_shape,           \* argument `input_shape`
  index_sizes,           \* argument `**index_sizes`
  pc,                    \* position of the call: start, solve, generated, optimized, error
  lhs,                   \* local `lhs` (after wildcard expansion)
  rhs,                   \* local `rhs` (after wildcard expansion)
  lhs_grouped,           \* local `lhs_grouped`
  j,                     \* loop index of `for j, group in enumerate(lhs_grouped)`
  inferred_index_sizes,  \* local `inferred_index_sizes`
  ops,                   \* the list returned by generate_ops
  optimized,             \* the list returned by optimizer.optimize
  error,                 \* the exception raised, "none" if none
  preprocessed,          \* the list returned by Backend._preprocess
  exec_value,            \* argument and local `value` of Backend.exec
  op_index,              \* position of the loop `for op in ops` of Backend.exec
  calls,                 \* the calls made on the backend so far, in order
  scan_expr,             \* argument `expr` of the running call of _group_dimensions
  scan_i,                \* its local `i` (1-based)
  scan_groups            \* its local `groups`

\* the state of Backend.exec after optimize
execvars == <<preprocessed, exec_value, op_index, calls>>

\* the state of a call of _group_dimensions
scanvars == <<scan_expr, scan_i, scan_groups>>

vars == <<equation, input_shape, index_sizes, pc, lhs, rhs, lhs_grouped, j,
          inferred_index_sizes, ops, optimized, error, preprocessed, exec_value, op_index,
          calls, scan_expr, scan_i, scan_groups>>

(***************************************************************************)
(* Bounds of the model.                                                    *)
(***************************************************************************)
MaxElems == 4    \* elements of the input tensor (product of input_shape)
MaxHint == 2     \* largest size hint

(***************************************************************************)
(* Generic helpers.                                                        *)
(***************************************************************************)
Range(s) == {s[n] : n \in DOMAIN s}

RECURSIVE Concat(_)
Concat(ss) == IF ss = <<>> THEN <<>> ELSE Head(ss) \o Concat(Tail(ss))

RECURSIVE Product(_)
Product(s) == IF s = <<>> THEN 1 ELSE Head(s) * Product(Tail(s))

\* str.count(a) for a one-character a
Count(s, a) == Cardinality({n \in DOMAIN s : s[n] = a})

\* str.index(a): 0-based position of the first occurrence
IndexOf(s, a) == (CHOOSE n \in DOMAIN s : s[n] = a /\ \A m \in 1..(n - 1) : s[m] # a) - 1

\* dict | {k: v}
Put(d, k, v) == [x \in DOMAIN d \cup {k} |-> IF x = k THEN v ELSE d[x]]

EmptyDict == [x \in {} |-> 0]

(***************************************************************************)
(* Characters.                                                             *)
(***************************************************************************)
ascii_lowercase ==
  <<"a", "b", "c", "d", "e", "f", "g", "h", "i", "j", "k", "l", "m",
    "n", "o", "p", "q", "r", "s", "t", "u", "v", "w", "x", "y", "z">>

ascii_uppercase ==
  <<"A", "B", "C", "D", "E", "F", "G", "H", "I", "J", "K", "L", "M",
    "N", "O", "P", "Q", "R", "S", "T", "U", "V", "W", "X", "Y", "Z">>

IsUpper(c) == c \in Range(ascii_uppercase)

\* the alphabetic characters outside ASCII that the equations are written with:
\* a lower-case letter, which str.lower() leaves as it is
OtherAlpha == {"é"}

\* str.isalpha() for one character
IsAlpha(c) == c \in Range(ascii_lowercase) \/ IsUpper(c) \/ c \in OtherAlpha

\* str.lower() for one character
LowerChar(c) ==
  IF IsUpper(c)
  THEN ascii_lowercase[CHOOSE n \in DOMAIN ascii_uppercase : ascii_uppercase[n] = c]
  ELSE c

\* str.lower()
Lower(s) == [n \in DOMAIN s |-> LowerChar(s[n])]

Wildcard == <<".", ".", ".">>
Arrow == <<"-", ">">>

\* expr[i:].startswith(t), i being a 1-based position
StartsWith(expr, i, t) ==
  /\ i + Len(t) - 1 <= Len(expr)
  /\ \A n \in DOMAIN t : expr[i + n - 1] = t[n]

(***************************************************************************)
(* A size is a Python int or a symbolic size: an object that is not an int *)
(* and takes part in arithmetic (a tensor of the runtime, the _ShapeExpr   *)
(* of engine_test.py), whose value is known only when the ops are run.  A  *)
(* symbolic size is written as a number from SymBase on, an int as itself: *)
(* SymBase + v is a symbolic size given by the caller that will have the   *)
(* value v, 2 * SymBase + v one that arithmetic has produced.  Arithmetic  *)
(* with a symbolic operand gives a symbolic result.                        *)
(***************************************************************************)
SymBase == 1000

\* isinstance(x, int)
IsInt(x) == x < SymBase

Symbolic(v) == SymBase + v
Computed(v) == 2 * SymBase + (v % SymBase)
ValueOf(x) == IF IsInt(x) THEN x ELSE x % SymBase

\* a * b, a % b, a // b and a - b
Mul(a, b) == IF IsInt(a) /\ IsInt(b) THEN a * b ELSE Computed(ValueOf(a) * ValueOf(b))
Mod(a, b) ==
  IF IsInt(a) /\ IsInt(b) THEN a % b
  ELSE Computed(IF ValueOf(b) > 0 THEN ValueOf(a) % ValueOf(b) ELSE 0)
FloorDiv(a, b) ==
  IF IsInt(a) /\ IsInt(b) THEN a \div b
  ELSE Computed(IF ValueOf(b) > 0 THEN ValueOf(a) \div ValueOf(b) ELSE 0)
Sub(a, b) == IF IsInt(a) /\ IsInt(b) THEN a - b ELSE Computed(ValueOf(a) - ValueOf(b))

(***************************************************************************)
(* engine._group_dimensions                                                *)
(***************************************************************************)
\* the position at which `while i < len(expr) and expr[i].isalpha()` stops
RECURSIVE AlphaRunEnd(_, _)
AlphaRunEnd(expr, i) ==
  IF i <= Len(expr) /\ IsAlpha(expr[i]) THEN AlphaRunEnd(expr, i + 1) ELSE i

Raise(msg) == [err |-> msg, groups |-> <<>>]

\* one iteration of the `while i < len(expr)` loop (lines 53-83), at position i
\* (1-based) with `groups`: it raises, or gives the next position and the groups
ScanIteration(expr, i, groups) ==
  IF IsAlpha(expr[i])
    THEN [err |-> "none", i |-> i + 1, groups |-> Append(groups, <<expr[i]>>)]
  ELSE IF expr[i] = "1"
    THEN [err |-> "none", i |-> i + 1, groups |-> Append(groups, <<>>)]
  ELSE IF expr[i] = "("
    THEN LET group_begin == i + 1
             group_end == AlphaRunEnd(expr, group_begin)
         IN IF ~(group_end <= Len(expr) /\ expr[group_end] = ")")
            THEN [err |-> "Unclosed parenthesis", i |-> i, groups |-> groups]
            ELSE [err |-> "none", i |-> group_end + 1,
                  groups |-> Append(groups, SubSeq(expr, group_begin, group_end - 1))]
  ELSE IF StartsWith(expr, i, Wildcard)
    THEN IF Wildcard \in Range(groups)
         THEN [err |-> "Wildcard may only occur once", i |-> i, groups |-> groups]
         ELSE [err |-> "none", i |-> i + Len(Wildcard), groups |-> Append(groups, Wildcard)]
  ELSE [err |-> "Illegal character", i |-> i, groups |-> groups]

\* the `while i < len(expr)` loop, from position i (1-based) with `groups`
RECURSIVE GroupScan(_, _, _)
GroupScan(expr, i, groups) ==
  IF i > Len(expr) THEN [err |-> "none", groups |-> groups]
  ELSE LET it == ScanIteration(expr, i, groups)
       IN IF it.err # "none" THEN Raise(it.err) ELSE GroupScan(expr, it.i, it.groups)

_group_dimensions(expr) == GroupScan(expr, 1, <<>>)

(***************************************************************************)
(* engine._expand_wildcard                                                 *)
(***************************************************************************)
\* str.replace(old, new): every non-overlapping occurrence, left to right
RECURSIVE Replace(_, _, _)
Replace(s, old, new) ==
  IF s = <<>> THEN <<>>
  ELSE IF StartsWith(s, 1, old)
    THEN new \o Replace(SubSeq(s, Len(old) + 1, Len(s)), old, new)
    ELSE <<Head(s)>> \o Replace(Tail(s), old, new)

_expand_wildcard(expr, num_wildcard_dims) ==
  IF num_wildcard_dims > Len(ascii_uppercase)
  THEN [err |-> "Too many dimensions", expr |-> <<>>]
  ELSE [err |-> "none",
        expr |-> Replace(expr, Wildcard, SubSeq(ascii_uppercase, 1, num_wildcard_dims))]

(***************************************************************************)
(* abstract_ops: the three ops and their transform_shape; the Tile op of   *)
(* tensorflow/preprocessing.py with them.                                  *)
(***************************************************************************)
Reshape(shape) == [op |-> "Reshape", shape |-> shape]
Transpose(perm) == [op |-> "Transpose", perm |-> perm]
Broadcast(axis_sizes) == [op |-> "Broadcast", axis_sizes |-> axis_sizes]
Tile(multiples) == [op |-> "Tile", multiples |-> multiples]

\* list.insert(position, x), position 0-based; past the end it appends
ListInsert(s, position, x) ==
  LET p == IF position > Len(s) THEN Len(s) ELSE position
  IN SubSeq(s, 1, p) \o <<x>> \o SubSeq(s, p + 1, Len(s))

\* the `for axis_position, axis_size in sorted(self.axis_sizes.items())` loop
RECURSIVE InsertAxes(_, _, _)
InsertAxes(shape, axis_sizes, todo) ==
  IF todo = {} THEN shape
  ELSE LET p == CHOOSE x \in todo : \A y \in todo : x <= y
       IN InsertAxes(ListInsert(shape, p, axis_sizes[p]), axis_sizes, todo \ {p})

transform_shape(o, shape) ==
  IF o.op = "Reshape" THEN o.shape
  ELSE IF o.op = "Transpose" THEN [n \in DOMAIN o.perm |-> shape[o.perm[n] + 1]]
  ELSE IF o.op = "Tile"
    THEN [n \in DOMAIN shape \cap DOMAIN o.multiples |-> Mul(o.multiples[n], shape[n])]
  ELSE InsertAxes(shape, o.axis_sizes, DOMAIN o.axis_sizes)

(***************************************************************************)
(* engine.generate_ops, lines 121-150: split the equation, group the LHS,  *)
(* check the rank and expand the wildcard.                                 *)
(***************************************************************************)
\* str.split(sep): the list of the parts between the occurrences of sep
RECURSIVE Split(_, _, _)
Split(s, sep, cur) ==
  IF s = <<>> THEN <<cur>>
  ELSE IF StartsWith(s, 1, sep)
    THEN <<cur>> \o Split(SubSeq(s, Len(sep) + 1, Len(s)), sep, <<>>)
    ELSE Split(Tail(s), sep, Append(cur, Head(s)))

\* variant of RankMismatch: only too few axes are refused
RankMismatch_TooFewOnly(has_wildcard, num_groups, rank) ==
  IF has_wildcard THEN rank < num_groups - 1 ELSE rank < num_groups

\* variant of RankMismatch: the wildcard has to capture at least one axis
RankMismatch_WildcardNonEmpty(has_wildcard, num_groups, rank) ==
  IF has_wildcard THEN rank < num_groups ELSE rank # num_groups

\* the condition of the raise at line 134 (wildcard) or line 146 (no wildcard)
RankMismatch(has_wildcard, num_groups, rank) ==
  IF has_wildcard THEN rank < num_groups - 1 ELSE rank # num_groups

ParseFailure(msg) == [err |-> msg, lhs |-> <<>>, rhs |-> <<>>, lhs_grouped |-> <<>>]

\* generate_ops, lines 133-150: from the groups of the LHS to the loop over them
AfterGrouping(lhs0, rhs0, groups0, shape) ==
  IF RankMismatch(Wildcard \in Range(groups0), Len(groups0), Len(shape))
    THEN ParseFailure("Input shape must have rank matching LHS")
  ELSE IF Wildcard \in Range(groups0)
    THEN LET num_wildcard_dims == Len(shape) - (Len(groups0) - 1)
             l == _expand_wildcard(lhs0, num_wildcard_dims)
             r == _expand_wildcard(rhs0, num_wildcard_dims)
         IN IF l.err # "none" THEN ParseFailure(l.err)
            ELSE IF r.err # "none" THEN ParseFailure(r.err)
            ELSE LET g1 == _group_dimensions(l.expr)
                 IN IF g1.err # "none" THEN ParseFailure(g1.err)
                    ELSE [err |-> "none", lhs |-> l.expr, rhs |-> r.expr,
                          lhs_grouped |-> g1.groups]
  ELSE [err |-> "none", lhs |-> lhs0, rhs |-> rhs0, lhs_grouped |-> groups0]

\* generate_ops, lines 122-150
ParseEquation(eq, shape) ==
  IF eq # Lower(eq) THEN ParseFailure("Shape Equation may not use upper-case indices")
  ELSE LET expression_list == Split(eq, Arrow, <<>>) IN
  IF Len(expression_list) # 2 THEN ParseFailure("Shape Equation requires a single arrow")
  ELSE LET lhs0 == expression_list[1]
           rhs0 == expression_list[2]
           g0 == _group_dimensions(lhs0) IN
  IF g0.err # "none" THEN ParseFailure(g0.err)
  ELSE AfterGrouping(lhs0, rhs0, g0.groups, shape)

(***************************************************************************)
(* engine.generate_ops, lines 154-189: one iteration of the loop over the  *)
(* LHS groups.                                                             *)
(***************************************************************************)
None == "None"

\* variant of SecondUnknown: a second unhinted index replaces the first
SecondUnknown_Never(unknown_index) == FALSE

\* `if unknown_index:` at line 163, the raise it guards
SecondUnknown(unknown_index) == unknown_index # None

\* the loop `for a in group` (lines 159-168), from position n of the group
RECURSIVE ScanGroup(_, _, _, _, _)
ScanGroup(group, n, hints, known_size, unknown_index) ==
  IF n > Len(group)
  THEN [err |-> "none", known_size |-> known_size, unknown_index |-> unknown_index]
  ELSE LET a == group[n] IN
    IF a \in DOMAIN hints
    THEN ScanGroup(group, n + 1, hints, Mul(known_size, hints[a]), unknown_index)
    ELSE IF SecondUnknown(unknown_index)
      THEN [err |-> "All but one of the indices must have their size specified",
            known_size |-> known_size, unknown_index |-> unknown_index]
      ELSE ScanGroup(group, n + 1, hints, known_size, a)

\* variant of NotDivisible: the remainder is looked at whatever it is
NotDivisible_AnyRemainder(size, known_size) ==
  ValueOf(Mod(size, known_size)) # 0

\* the condition of the raise at line 173
NotDivisible(size, known_size) ==
  LET remainder == Mod(size, known_size)
  IN IsInt(remainder) /\ remainder # 0

\* variant of InferredSize: the whole axis goes to the unhinted index
InferredSize_Undivided(size, known_size) == size

\* the right-hand side of line 179
InferredSize(size, known_size) == FloorDiv(size, known_size)

\* variant of Discrepant: only an axis smaller than the hints is refused
Discrepant_TooSmallOnly(size, known_size) ==
  LET discrepancy == Sub(size, known_size)
  IN IsInt(discrepancy) /\ discrepancy < 0

\* the condition of the raise at line 185
Discrepant(size, known_size) ==
  LET discrepancy == Sub(size, known_size)
  IN IsInt(discrepancy) /\ discrepancy # 0

SolveGroup(group, size, hints, inferred) ==
  LET scan == ScanGroup(group, 1, hints, 1, None) IN
  IF scan.err # "none" THEN [err |-> scan.err, inferred |-> inferred]
  ELSE IF scan.unknown_index # None
    THEN IF IsInt(size) /\ scan.known_size = 0
         THEN [err |-> "ZeroDivisionError", inferred |-> inferred]
         ELSE IF NotDivisible(size, scan.known_size)
           THEN [err |-> "Dimension to ungroup is not divisible by its index sizes",
                 inferred |-> inferred]
           ELSE [err |-> "none",
                 inferred |-> Put(inferred, scan.unknown_index,
                                  InferredSize(size, scan.known_size))]
    ELSE IF Discrepant(size, scan.known_size)
      THEN [err |-> "Input shape incompatible with index sizes", inferred |-> inferred]
      ELSE [err |-> "none", inferred |-> inferred]

(***************************************************************************)
(* engine.generate_ops, lines 191-248: the ungroup, transpose?,            *)
(* broadcast?, regroup sequence.                                           *)
(***************************************************************************)
\* ungrouped_shape: the sizes listed in the reverse of the order of the indices
UngroupedShape_Reversed(ungrouped, inferred) ==
  [n \in DOMAIN ungrouped |-> inferred[ungrouped[Len(ungrouped) + 1 - n]]]

\* ungrouped_shape: the size of every index of the ungrouped LHS, in order
UngroupedShape(ungrouped, inferred) ==
  [n \in DOMAIN ungrouped |-> inferred[ungrouped[n]]]

\* re.sub('[1()]', '', rhs)
StripGrouping(expr) == SelectSeq(expr, LAMBDA c : c \notin {"1", "(", ")"})

\* variant of ScanRhs: a new axis is keyed by its rank among the new axes
RECURSIVE ScanRhs_CountNewOnly(_, _, _, _, _, _)
ScanRhs_CountNewOnly(flat, n, ungrouped, inferred, transposed, broadcast_axis_sizes) ==
  IF n > Len(flat)
  THEN [err |-> "none", transposed |-> transposed,
        broadcast_axis_sizes |-> broadcast_axis_sizes]
  ELSE LET a == flat[n] IN
    IF a \in Range(ungrouped)
    THEN ScanRhs_CountNewOnly(flat, n + 1, ungrouped, inferred, Append(transposed, a),
                              broadcast_axis_sizes)
    ELSE IF a \notin DOMAIN inferred
      THEN [err |-> "Broadcast multiples must be specified", transposed |-> transposed,
            broadcast_axis_sizes |-> broadcast_axis_sizes]
      ELSE ScanRhs_CountNewOnly(flat, n + 1, ungrouped, inferred, transposed,
                                Put(broadcast_axis_sizes,
                                    Cardinality(DOMAIN broadcast_axis_sizes), inferred[a]))

\* the loop `for i, a in enumerate(...)` (lines 201-207), from position n (1-based)
RECURSIVE ScanRhs(_, _, _, _, _, _)
ScanRhs(flat, n, ungrouped, inferred, transposed, broadcast_axis_sizes) ==
  IF n > Len(flat)
  THEN [err |-> "none", transposed |-> transposed,
        broadcast_axis_sizes |-> broadcast_axis_sizes]
  ELSE LET a == flat[n] IN
    IF a \in Range(ungrouped)
    THEN ScanRhs(flat, n + 1, ungrouped, inferred, Append(transposed, a),
                 broadcast_axis_sizes)
    ELSE IF a \notin DOMAIN inferred
      THEN [err |-> "Broadcast multiples must be specified", transposed |-> transposed,
            broadcast_axis_sizes |-> broadcast_axis_sizes]
      ELSE ScanRhs(flat, n + 1, ungrouped, inferred, transposed,
                   Put(broadcast_axis_sizes, n - 1, inferred[a]))

\* variant of RhsIndexNotOnceInLhs: the occurrences in the LHS are not counted
RhsIndexNotOnceInLhs_Never(ungrouped, transposed) == FALSE

\* the condition of the raise at line 211
RhsIndexNotOnceInLhs(ungrouped, transposed) ==
  \E n \in DOMAIN transposed : Count(ungrouped, transposed[n]) # 1

\* variant of LhsIndexNotOnceInRhs: only an absent index is refused
LhsIndexNotOnceInRhs_AbsentOnly(ungrouped, rhs_expr) ==
  \E n \in DOMAIN ungrouped : Count(rhs_expr, ungrouped[n]) = 0

\* the condition of the raise at line 213
LhsIndexNotOnceInRhs(ungrouped, rhs_expr) ==
  \E n \in DOMAIN ungrouped : Count(rhs_expr, ungrouped[n]) # 1

\* variant of Perm: the inverse permutation
Perm_Inverted(ungrouped, transposed) ==
  [n \in DOMAIN ungrouped |-> IndexOf(transposed, ungrouped[n])]

\* variant of Perm: positions taken in the RHS order itself
Perm_OfTransposed(ungrouped, transposed) ==
  [n \in DOMAIN transposed |-> IndexOf(transposed, transposed[n])]

\* line 215
Perm(ungrouped, transposed) ==
  [n \in DOMAIN transposed |-> IndexOf(ungrouped, transposed[n])]

\* the code point of a character that can occur in a group
Ord(c) ==
  IF c = "." THEN 46
  ELSE IF c = "é" THEN 233
  ELSE IF IsUpper(c)
    THEN 64 + (CHOOSE n \in DOMAIN ascii_uppercase : ascii_uppercase[n] = c)
    ELSE 96 + (CHOOSE n \in DOMAIN ascii_lowercase : ascii_lowercase[n] = c)

\* the sequence without its element at position n
RemoveAt(s, n) == SubSeq(s, 1, n - 1) \o SubSeq(s, n + 1, Len(s))

\* ''.join(sorted(group))
RECURSIVE alphabetical(_)
alphabetical(group) ==
  IF group = <<>> THEN <<>>
  ELSE LET n == CHOOSE x \in DOMAIN group :
                  /\ \A y \in DOMAIN group : Ord(group[x]) <= Ord(group[y])
                  /\ \A y \in 1..(x - 1) : Ord(group[y]) # Ord(group[x])
       IN <<group[n]>> \o alphabetical(RemoveAt(group, n))

\* the dict comprehension at lines 226-227, over zip(lhs_grouped, input_shape)
RECURSIVE GroupSizeDict(_, _, _)
GroupSizeDict(groups, shape, d) ==
  IF groups = <<>> \/ shape = <<>> THEN d
  ELSE GroupSizeDict(Tail(groups), Tail(shape), Put(d, alphabetical(Head(groups)), Head(shape)))

\* variant of IndexProduct: only the first index of the group counts
IndexProduct_FirstOnly(group, inferred) ==
  IF group = <<>> THEN 1 ELSE inferred[group[1]]

\* the loop `for a in group: prod *= inferred_index_sizes[a]`
RECURSIVE IndexProduct(_, _)
IndexProduct(group, inferred) ==
  IF group = <<>> THEN 1
  ELSE Mul(IndexProduct(SubSeq(group, 1, Len(group) - 1), inferred),
           inferred[group[Len(group)]])

\* variant of group_size: the product, whatever it is
group_size_ProductOnly(group, inferred, group_size_dict) ==
  IndexProduct(group, inferred)

group_size(group, inferred, group_size_dict) ==
  LET prod == IndexProduct(group, inferred)
  IN IF ~IsInt(prod) /\ alphabetical(group) \in DOMAIN group_size_dict
     THEN group_size_dict[alphabetical(group)]
     ELSE prod

\* variant of Synthesize: the Broadcast is appended before the Transpose
Synthesize_BroadcastFirst(groups, rhs_expr, shape, inferred) ==
  LET ungrouped == Concat(groups)
      ungrouped_shape == UngroupedShape(ungrouped, inferred)
      scan == ScanRhs(StripGrouping(rhs_expr), 1, ungrouped, inferred, <<>>, EmptyDict)
      transposed == scan.transposed
      rhs_grouped == _group_dimensions(rhs_expr)
      group_size_dict == GroupSizeDict(groups, shape, EmptyDict)
      output_shape == [n \in DOMAIN rhs_grouped.groups |->
                         group_size(rhs_grouped.groups[n], inferred, group_size_dict)]
  IN
  IF scan.err # "none" THEN [err |-> scan.err, ops |-> <<>>]
  ELSE IF transposed # ungrouped /\ RhsIndexNotOnceInLhs(ungrouped, transposed)
    THEN [err |-> "Every index in RHS must occur exactly once in LHS", ops |-> <<>>]
  ELSE IF transposed # ungrouped /\ LhsIndexNotOnceInRhs(ungrouped, rhs_expr)
    THEN [err |-> "Every index in LHS must occur exactly once in RHS", ops |-> <<>>]
  ELSE IF rhs_grouped.err # "none" THEN [err |-> rhs_grouped.err, ops |-> <<>>]
  ELSE [err |-> "none",
        ops |-> <<Reshape(ungrouped_shape)>>
                \o (IF DOMAIN scan.broadcast_axis_sizes # {}
                    THEN <<Broadcast(scan.broadcast_axis_sizes)>> ELSE <<>>)
                \o (IF transposed # ungrouped
                    THEN <<Transpose(Perm(ungrouped, transposed))>> ELSE <<>>)
                \o <<Reshape(output_shape)>>]

Synthesize(groups, rhs_expr, shape, inferred) ==
  LET ungrouped == Concat(groups)
      ungrouped_shape == UngroupedShape(ungrouped, inferred)
      scan == ScanRhs(StripGrouping(rhs_expr), 1, ungrouped, inferred, <<>>, EmptyDict)
      transposed == scan.transposed
      rhs_grouped == _group_dimensions(rhs_expr)
      group_size_dict == GroupSizeDict(groups, shape, EmptyDict)
      output_shape == [n \in DOMAIN rhs_grouped.groups |->
                         group_size(rhs_grouped.groups[n], inferred, group_size_dict)]
  IN
  IF scan.err # "none" THEN [err |-> scan.err, ops |-> <<>>]
  ELSE IF transposed # ungrouped /\ RhsIndexNotOnceInLhs(ungrouped, transposed)
    THEN [err |-> "Every index in RHS must occur exactly once in LHS", ops |-> <<>>]
  ELSE IF transposed # ungrouped /\ LhsIndexNotOnceInRhs(ungrouped, rhs_expr)
    THEN [err |-> "Every index in LHS must occur exactly once in RHS", ops |-> <<>>]
  ELSE IF rhs_grouped.err # "none" THEN [err |-> rhs_grouped.err, ops |-> <<>>]
  ELSE [err |-> "none",
        ops |-> <<Reshape(ungrouped_shape)>>
                \o (IF transposed # ungrouped
                    THEN <<Transpose(Perm(ungrouped, transposed))>> ELSE <<>>)
                \o (IF DOMAIN scan.broadcast_axis_sizes # {}
                    THEN <<Broadcast(scan.broadcast_axis_sizes)>> ELSE <<>>)
                \o <<Reshape(output_shape)>>]

(***************************************************************************)
(* engine.generate_ops as a whole: what the call returns or raises.        *)
(***************************************************************************)
\* the loop `for j, group in enumerate(lhs_grouped)` from iteration jj (0-based)
RECURSIVE SolveAll(_, _, _, _, _)
SolveAll(groups, shape, hints, jj, inferred) ==
  IF jj >= Len(groups) THEN [err |-> "none", inferred |-> inferred]
  ELSE LET r == SolveGroup(groups[jj + 1], shape[jj + 1], hints, inferred)
       IN IF r.err # "none" THEN r
          ELSE SolveAll(groups, shape, hints, jj + 1, r.inferred)

generate_ops(eq, shape, hints) ==
  LET p == ParseEquation(eq, shape) IN
  IF p.err # "none" THEN [err |-> p.err, ops |-> <<>>]
  ELSE LET s == SolveAll(p.lhs_grouped, shape, hints, 0, hints) IN
    IF s.err # "none" THEN [err |-> s.err, ops |-> <<>>]
    ELSE Synthesize(p.lhs_grouped, p.rhs, shape, s.inferred)

(***************************************************************************)
(* optimizer                                                               *)
(***************************************************************************)
\* ops[i:i+2] for a 0-based i
Slice2(s, i) == SubSeq(s, i + 1, IF i + 2 <= Len(s) THEN i + 2 ELSE Len(s))

\* variant of _are_contiguous_reshapes: one Reshape among the ops is enough
_are_contiguous_reshapes_Any(s) ==
  Len(s) > 1 /\ \E n \in DOMAIN s : s[n].op = "Reshape"

_are_contiguous_reshapes(s) ==
  Len(s) > 1 /\ \A n \in DOMAIN s : s[n].op = "Reshape"

\* the positions (1-based) of a sequence that a filter keeps, as a subsequence
RECURSIVE Keep(_, _, _)
Keep(s, n, kept) ==
  IF n > Len(s) THEN <<>>
  ELSE (IF n \in kept THEN <<s[n]>> ELSE <<>>) \o Keep(s, n + 1, kept)

\* variant of _elide_intermediate_reshapes: the first Reshape of a run is kept
_elide_intermediate_reshapes_KeepFirst(s) ==
  Keep(s, 1, {n \in DOMAIN s : n = 1 \/ ~_are_contiguous_reshapes(SubSeq(s, n - 1, n))})

_elide_intermediate_reshapes(s) ==
  Keep(s, 1, {n \in DOMAIN s : ~_are_contiguous_reshapes(Slice2(s, n - 1))})

\* variant of _is_static: every size counts as static
_is_static_Always(seq) == TRUE

_is_static(seq) == \A n \in DOMAIN seq : IsInt(seq[n])

\* variant of _is_noop_reshape: a Reshape that keeps the rank counts as a no-op
_is_noop_reshape_RankOnly(o, shape) ==
  IF o.op = "Reshape" /\ _is_static(shape)
  THEN Len(transform_shape(o, shape)) = Len(shape)
  ELSE FALSE

\* variant of _is_noop_reshape: any op that keeps the shape counts as a no-op
_is_noop_reshape_AnyOp(o, shape) ==
  IF _is_static(shape)
  THEN LET output_shape == transform_shape(o, shape)
       IN IF _is_static(output_shape) THEN output_shape = shape ELSE FALSE
  ELSE FALSE

_is_noop_reshape(o, shape) ==
  IF o.op = "Reshape" /\ _is_static(shape)
  THEN LET output_shape == transform_shape(o, shape)
       IN IF _is_static(output_shape) THEN output_shape = shape ELSE FALSE
  ELSE FALSE

RECURSIVE _elide_noop_reshapes(_, _)
_elide_noop_reshapes(s, shape) ==
  IF s = <<>> THEN <<>>
  ELSE (IF ~_is_noop_reshape(Head(s), shape) THEN <<Head(s)>> ELSE <<>>)
       \o _elide_noop_reshapes(Tail(s), transform_shape(Head(s), shape))

\* variant of optimize: the two passes in the other order
optimize_NoopsFirst(s, shape) == _elide_intermediate_reshapes(_elide_noop_reshapes(s, shape))

optimize(s, shape) == _elide_noop_reshapes(_elide_intermediate_reshapes(s), shape)

\* Transpose.transform_shape raises IndexError somewhere along the sequence: a perm
\* names an axis that the shape reaching it does not have
RECURSIVE TransformFails(_, _)
TransformFails(s, shape) ==
  IF s = <<>> THEN FALSE
  ELSE IF Head(s).op = "Transpose"
          /\ \E n \in DOMAIN Head(s).perm : Head(s).perm[n] >= Len(shape)
    THEN TRUE
    ELSE TransformFails(Tail(s), transform_shape(Head(s), shape))

\* a call of optimize: what it returns or raises
OptimizeCall(s, shape) ==
  IF TransformFails(_elide_intermediate_reshapes(s), shape)
  THEN [err |-> "IndexError", ops |-> <<>>]
  ELSE [err |-> "none", ops |-> optimize(s, shape)]

(***************************************************************************)
(* numpy_ops._NumpyBackend: a tensor is its shape and its elements in      *)
(* row-major order; positions and multi-indices are 0-based.               *)
(***************************************************************************)
\* the row-major position of a multi-index
RECURSIVE Ravel(_, _)
Ravel(idx, shape) ==
  IF idx = <<>> THEN 0
  ELSE Ravel(SubSeq(idx, 1, Len(idx) - 1), SubSeq(shape, 1, Len(shape) - 1))
       * shape[Len(shape)] + idx[Len(idx)]

\* the multi-index of a row-major position
Unravel(pos, shape) ==
  [n \in DOMAIN shape |->
     (pos \div Product(SubSeq(shape, n + 1, Len(shape)))) % shape[n]]

Tensor(shape, data) == [err |-> "none", shape |-> shape, data |-> data]
ExecFailure(msg) == [err |-> msg, shape |-> <<>>, data |-> <<>>]

\* np.reshape(x, op.shape)
np_reshape(x, o) ==
  IF Product(o.shape) # Len(x.data)
  THEN ExecFailure("cannot reshape array")
  ELSE Tensor(o.shape, x.data)

\* np.transpose(x, axes=op.perm): axis n of the result is axis perm[n] of x
np_transpose(x, o) ==
  IF ~(/\ Len(o.perm) = Len(x.shape)
       /\ \A a \in 0..(Len(x.shape) - 1) : \E n \in DOMAIN o.perm : o.perm[n] = a)
  THEN ExecFailure("axes don't match array")
  ELSE LET shape == transform_shape(o, x.shape)
           Source(pos) ==
             LET out == Unravel(pos, shape)
                 idx == [a \in DOMAIN x.shape |->
                           out[CHOOSE n \in DOMAIN o.perm : o.perm[n] = a - 1]]
             IN Ravel(idx, x.shape)
       IN Tensor(shape, [n \in 1..Product(shape) |-> x.data[Source(n - 1) + 1]])

\* np.broadcast_to(np.expand_dims(x, axis=sorted keys), desired_shape)
np_broadcast(x, o) ==
  LET desired_shape == transform_shape(o, x.shape)
      new_axis_indices == DOMAIN o.axis_sizes
  IN IF \E p \in new_axis_indices : p < 0 \/ p >= Len(desired_shape)
     THEN ExecFailure("axis is out of bounds")
     ELSE LET old == SelectSeq([n \in DOMAIN desired_shape |-> n],
                               LAMBDA n : (n - 1) \notin new_axis_indices)
              Source(pos) ==
                LET out == Unravel(pos, desired_shape)
                IN Ravel([a \in DOMAIN old |-> out[old[a]]], x.shape)
          IN Tensor(desired_shape,
                    [n \in 1..Product(desired_shape) |-> x.data[Source(n - 1) + 1]])

\* ShapeOp.execute(backend, x)
execute(o, x) ==
  IF o.op = "Reshape" THEN np_reshape(x, o)
  ELSE IF o.op = "Transpose" THEN np_transpose(x, o)
  ELSE np_broadcast(x, o)

\* the loop `for op in ops: value = op.execute(self, value)`
RECURSIVE Run(_, _)
Run(s, x) ==
  IF s = <<>> \/ x.err # "none" THEN x
  ELSE Run(Tail(s), execute(Head(s), x))

(***************************************************************************)
(* backend.Backend                                                         *)
(***************************************************************************)
\* variant of _preprocess: the first op is dropped
_preprocess_DropFirst(s, shape) == IF s = <<>> THEN s ELSE Tail(s)

\* Backend._preprocess, the default
_preprocess(s, shape) == s

\* the backend method that ShapeOp.execute calls
Primitive(o) ==
  IF o.op = "Reshape" THEN "reshape"
  ELSE IF o.op = "Transpose" THEN "transpose"
  ELSE "broadcast"

\* one call on the backend: the method, its op or ops, and what it is applied to
Call(fn, arg, on) == [fn |-> fn, arg |-> arg, on |-> on]

\* a tensor of the given shape whose elements are their own row-major positions
Iota(shape) == Tensor(shape, [n \in 1..Product(shape) |-> n - 1])

(***************************************************************************)
(* tensorflow/preprocessing.preprocess and tf_ops._TFBackend               *)
(***************************************************************************)
\* the keys of sorted(op.axis_sizes.items()), in order
SortedKeys(axis_sizes) ==
  [n \in 1..Cardinality(DOMAIN axis_sizes) |->
     CHOOSE p \in DOMAIN axis_sizes : Cardinality({q \in DOMAIN axis_sizes : q < p}) = n - 1]

\* variant of TileMultiples: a multiple is replaced, not multiplied
RECURSIVE TileMultiples_LastOnly(_, _, _)
TileMultiples_LastOnly(axis_sizes, n, tile_multiples) ==
  IF n > Cardinality(DOMAIN axis_sizes)
  THEN [err |-> "none", multiples |-> tile_multiples]
  ELSE LET axis == SortedKeys(axis_sizes)[n]
           original_axis == axis - (n - 1)
       IN IF original_axis >= Len(tile_multiples)
          THEN [err |-> "IndexError", multiples |-> <<>>]
          ELSE TileMultiples_LastOnly(axis_sizes, n + 1,
                 [tile_multiples EXCEPT ![original_axis + 1] = axis_sizes[axis]])

\* the loop of lines 81-83 from its iteration j = n - 1; the keys are not negative
RECURSIVE TileMultiples(_, _, _)
TileMultiples(axis_sizes, n, tile_multiples) ==
  IF n > Cardinality(DOMAIN axis_sizes)
  THEN [err |-> "none", multiples |-> tile_multiples]
  ELSE LET axis == SortedKeys(axis_sizes)[n]
           original_axis == axis - (n - 1)
       IN IF original_axis >= Len(tile_multiples)
          THEN [err |-> "IndexError", multiples |-> <<>>]
          ELSE TileMultiples(axis_sizes, n + 1,
                 [tile_multiples EXCEPT ![original_axis + 1] = Mul(@, axis_sizes[axis])])

\* preprocess(ops, input_shape): what it returns or raises
RECURSIVE preprocess(_, _)
preprocess(s, shape) ==
  IF s = <<>> THEN [err |-> "none", ops |-> <<>>]
  ELSE LET o == Head(s) IN
    IF TransformFails(<<o>>, shape) THEN [err |-> "IndexError", ops |-> <<>>]
    ELSE LET next_shape == transform_shape(o, shape) IN
      IF o.op = "Broadcast"
      THEN LET trailing == (Len(next_shape) - 1) \in DOMAIN o.axis_sizes
               shape1 == IF trailing THEN Append(shape, 1) ELSE shape
               tile == TileMultiples(o.axis_sizes, 1, [n \in DOMAIN shape1 |-> 1])
               rest == preprocess(Tail(s), next_shape)
           IN IF tile.err # "none" THEN [err |-> tile.err, ops |-> <<>>]
              ELSE IF rest.err # "none" THEN rest
              ELSE [err |-> "none",
                    ops |-> (IF trailing THEN <<Reshape(shape1)>> ELSE <<>>)
                            \o <<Tile(tile.multiples), Reshape(next_shape)>>
                            \o rest.ops]
      ELSE LET rest == preprocess(Tail(s), next_shape)
           IN IF rest.err # "none" THEN rest
              ELSE [err |-> "none", ops |-> <<o>> \o rest.ops]

\* tf.tile(x, op.multiples): the input repeated multiples[a] times along axis a
tf_tile(x, o) ==
  IF Len(o.multiples) # Len(x.shape)
  THEN ExecFailure("Expected multiples argument to be a vector of length rank")
  ELSE LET shape == transform_shape(o, x.shape)
           Source(pos) ==
             LET out == Unravel(pos, shape)
             IN Ravel([a \in DOMAIN x.shape |-> out[a] % x.shape[a]], x.shape)
       IN Tensor(shape, [n \in 1..Product(shape) |-> x.data[Source(n - 1) + 1]])

\* ShapeOp.execute(backend, x) on the TensorFlow backend: tf.reshape and
\* tf.transpose are np.reshape and np.transpose, broadcast is not implemented
tf_execute(o, x) ==
  IF o.op = "Reshape" THEN np_reshape(x, o)
  ELSE IF o.op = "Transpose" THEN np_transpose(x, o)
  ELSE IF o.op = "Tile" THEN tf_tile(x, o)
  ELSE ExecFailure("NotImplementedError")

\* the loop `for op in ops: value = op.execute(self, value)` on that backend
RECURSIVE TfRun(_, _)
TfRun(s, x) ==
  IF s = <<>> \/ x.err # "none" THEN x
  ELSE TfRun(Tail(s), tf_execute(Head(s), x))

\* the method of _TFBackend that ShapeOp.execute calls
TfPrimitive(o) == IF o.op = "Tile" THEN "tile" ELSE Primitive(o)

(***************************************************************************)
(* The inputs of one call.                                                 *)
(***************************************************************************)
\* Backend.exec has the tensor it was given and has called nothing
NotExecuted ==
  /\ preprocessed = <<>>
  /\ exec_value = Iota(input_shape)
  /\ op_index = 0
  /\ calls = <<>>

\* no call of _group_dimensions is running
NotScanning ==
  /\ scan_expr = <<>>
  /\ scan_i = 0
  /\ scan_groups = <<>>

\* the index letters the equations are written with, in alphabetical order
Letters == <<"i", "j", "k">>

\* one group as it is written: a bare index, 1, a parenthesised pair, or ...
Tokens ==
  {<<a>> : a \in Range(Letters)} \cup {<<"1">>, Wildcard}
  \cup {<<"(", a, b, ")">> : a, b \in Range(Letters)}

\* the index letters of an expression, in order of occurrence
IndicesOf(expr) == SelectSeq(expr, LAMBDA c : c \in Range(Letters))

Distinct(s) == \A m, n \in DOMAIN s : m # n => s[m] # s[n]

\* the expressions of at most two written groups, with at most two indices or
\* with three distinct ones
Sides ==
  {s \in {<<>>} \cup Tokens \cup {t \o u : t, u \in Tokens} :
     \/ Len(IndicesOf(s)) <= 2
     \/ Len(IndicesOf(s)) = 3 /\ Distinct(IndicesOf(s))}

\* the letters of an equation are named in order of first occurrence; every other
\* equation is one of these with its letters renamed
FirstUse(eq, a) == CHOOSE n \in DOMAIN eq : eq[n] = a /\ \A m \in 1..(n - 1) : eq[m] # a

InOrderOfFirstUse(eq) ==
  \A n \in 2..Len(Letters) :
    Letters[n] \in Range(eq) =>
      Letters[n - 1] \in Range(eq) /\ FirstUse(eq, Letters[n - 1]) < FirstUse(eq, Letters[n])

Equations == {eq \in {l \o Arrow \o r : l \in Sides, r \in Sides} : InOrderOfFirstUse(eq)}

\* the shapes of n axes
RECURSIVE ShapesOfRank(_)
ShapesOfRank(n) ==
  IF n = 0 THEN {<<>>}
  ELSE {Append(s, d) : s \in ShapesOfRank(n - 1), d \in 1..MaxElems}

\* the shapes of at most two axes and at most MaxElems elements
Shapes ==
  {s \in ShapesOfRank(0) \cup ShapesOfRank(1) \cup ShapesOfRank(2) : Product(s) <= MaxElems}

\* the size hints: any subset of the equation's indices, each of a size 2..MaxHint
Hints(eq) ==
  UNION {[D -> 2..MaxHint] : D \in SUBSET (Range(eq) \cap Range(Letters))}

Init ==
  /\ equation \in Equations
  /\ input_shape \in Shapes
  /\ index_sizes \in Hints(equation)
  /\ pc = "start"
  /\ lhs = <<>>
  /\ rhs = <<>>
  /\ lhs_grouped = <<>>
  /\ j = 0
  /\ inferred_index_sizes = EmptyDict
  /\ ops = <<>>
  /\ optimized = <<>>
  /\ error = "none"
  /\ NotExecuted
  /\ NotScanning

(***************************************************************************)
(* The inputs of one call whose LHS has a wildcard.                        *)
(***************************************************************************)
\* the sequences of at most three elements of a set
UpToThree(S) ==
  {<<>>} \cup {<<a>> : a \in S} \cup {<<a, b>> : a, b \in S}
  \cup {<<a, b, c>> : a, b, c \in S}

\* an LHS of at most three written groups: one wildcard among bare indices
WildcardLhs ==
  {Concat(s) : s \in {t \in UpToThree({<<"i">>, <<"j">>, Wildcard}) :
                        Count(t, Wildcard) = 1}}

\* an RHS of at most three written groups: bare indices, wildcards, and a
\* parenthesised wildcard
WildcardRhs ==
  {Concat(s) : s \in UpToThree({<<"i">>, <<"j">>, Wildcard, <<"(">> \o Wildcard \o <<")">>})}

WildcardEquations ==
  {eq \in {l \o Arrow \o r : l \in WildcardLhs, r \in WildcardRhs} : InOrderOfFirstUse(eq)}

\* the shapes of at most three axes and at most MaxElems elements
WildcardShapes ==
  {s \in ShapesOfRank(0) \cup ShapesOfRank(1) \cup ShapesOfRank(2) \cup ShapesOfRank(3) :
     Product(s) <= MaxElems}

WildcardInit ==
  /\ equation \in WildcardEquations
  /\ input_shape \in WildcardShapes
  /\ index_sizes \in Hints(equation)
  /\ pc = "start"
  /\ lhs = <<>>
  /\ rhs = <<>>
  /\ lhs_grouped = <<>>
  /\ j = 0
  /\ inferred_index_sizes = EmptyDict
  /\ ops = <<>>
  /\ optimized = <<>>
  /\ error = "none"
  /\ NotExecuted
  /\ NotScanning

(***************************************************************************)
(* The inputs of one call on an arbitrary string: the equation is made of  *)
(* at most three pieces, well-formed or not; sizes and hints may be 0.     *)
(***************************************************************************)
AnyPieces ==
  {<<"i">>, <<"j">>, <<"1">>, <<"(">>, <<")">>, <<"(", "i", "j", ")">>, Wildcard, Arrow,
   <<"é">>, <<"I">>, <<"+">>}

AnyEquations == {Concat(s) : s \in UpToThree(AnyPieces)}

\* the shapes of at most two axes, each of a size 0..MaxHint
AnyShapes ==
  {<<>>} \cup {<<d>> : d \in 0..MaxHint} \cup {<<d, e>> : d, e \in 0..MaxHint}

\* the size hints: any subset of the equation's lower-case letters, each 0..MaxHint
AnyHints(eq) ==
  UNION {[D -> 0..MaxHint] :
           D \in SUBSET {c \in Range(eq) : IsAlpha(c) /\ ~IsUpper(c)}}

AnyInit ==
  /\ equation \in AnyEquations
  /\ input_shape \in AnyShapes
  /\ index_sizes \in AnyHints(equation)
  /\ pc = "start"
  /\ lhs = <<>>
  /\ rhs = <<>>
  /\ lhs_grouped = <<>>
  /\ j = 0
  /\ inferred_index_sizes = EmptyDict
  /\ ops = <<>>
  /\ optimized = <<>>
  /\ error = "none"
  /\ NotExecuted
  /\ NotScanning

(***************************************************************************)
(* The inputs of a call with symbolic sizes: an equation without wildcard  *)
(* of at most two different indices, a shape whose axes are ints or the    *)
(* symbolic size of value MaxElems, hints that are ints or the symbolic    *)
(* size of value MaxHint, and at least one symbolic size among them.       *)
(***************************************************************************)
SymEquations ==
  {eq \in Equations : "k" \notin Range(eq) /\ "." \notin Range(eq)}

SymAxisSizes == {1, 2, MaxElems, Symbolic(MaxElems)}

SymShapes ==
  {<<>>} \cup {<<d>> : d \in SymAxisSizes} \cup {<<d, e>> : d, e \in SymAxisSizes}

SymHints(eq) ==
  UNION {[D -> (2..MaxHint) \cup {Symbolic(MaxHint)}] :
           D \in SUBSET (Range(eq) \cap Range(Letters))}

\* Backend.exec has not been called: the tensor of the symbolic shape has no
\* elements yet
NotBuilt ==
  /\ preprocessed = <<>>
  /\ exec_value = Tensor(input_shape, <<>>)
  /\ op_index = 0
  /\ calls = <<>>

SymInit ==
  /\ equation \in SymEquations
  /\ input_shape \in SymShapes
  /\ index_sizes \in SymHints(equation)
  /\ IF _is_static(input_shape)
     THEN \E a \in DOMAIN index_sizes : ~IsInt(index_sizes[a])
     ELSE TRUE
  /\ pc = "start"
  /\ lhs = <<>>
  /\ rhs = <<>>
  /\ lhs_grouped = <<>>
  /\ j = 0
  /\ inferred_index_sizes = EmptyDict
  /\ ops = <<>>
  /\ optimized = <<>>
  /\ error = "none"
  /\ NotBuilt
  /\ NotScanning

(***************************************************************************)
(* The inputs of the calls followed to their end: the same strings, with   *)
(* every axis and every hint of one of the sizes 0, 1 and MaxHint, which   *)
(* is enough for each raise and each return to be taken.                   *)
(***************************************************************************)
TermSizes == {0, 1, MaxHint}

TermShapes == {<<>>} \cup {<<d>> : d \in TermSizes} \cup {<<d, e>> : d, e \in TermSizes}

TermHints(eq) ==
  UNION {[D -> {0, MaxHint}] : D \in SUBSET {c \in Range(eq) : IsAlpha(c) /\ ~IsUpper(c)}}

TermInit ==
  /\ equation \in AnyEquations
  /\ input_shape \in TermShapes
  /\ index_sizes \in TermHints(equation)
  /\ pc = "start"
  /\ lhs = <<>>
  /\ rhs = <<>>
  /\ lhs_grouped = <<>>
  /\ j = 0
  /\ inferred_index_sizes = EmptyDict
  /\ ops = <<>>
  /\ optimized = <<>>
  /\ error = "none"
  /\ NotExecuted
  /\ NotScanning

(***************************************************************************)
(* The inputs of a call of optimizer.optimize on a sequence of ops of its  *)
(* own: at most three ops, each a Reshape to one of the shapes, a          *)
(* Transpose of at most two axes (0, 0 is not a permutation) or a          *)
(* Broadcast of new axes at the positions 0 and 1.                         *)
(***************************************************************************)
OptOps ==
  {Reshape(s) : s \in Shapes}
  \cup {Transpose(p) : p \in {<<>>, <<0>>, <<0, 1>>, <<1, 0>>, <<0, 0>>}}
  \cup {Broadcast(f) : f \in UNION {[D -> 2..MaxHint] : D \in {{0}, {1}, {0, 1}}}}

OptInit ==
  /\ ops \in UpToThree(OptOps)
  /\ input_shape \in Shapes
  /\ pc = "ops"
  /\ equation = <<>>
  /\ index_sizes = EmptyDict
  /\ lhs = <<>>
  /\ rhs = <<>>
  /\ lhs_grouped = <<>>
  /\ j = 0
  /\ inferred_index_sizes = EmptyDict
  /\ optimized = <<>>
  /\ error = "none"
  /\ NotExecuted
  /\ NotScanning

(***************************************************************************)
(* The inputs of a call of optimizer.optimize with symbolic sizes: at most *)
(* three ops on a shape of at most two axes, every size 1, MaxHint or the  *)
(* symbolic size of value MaxHint.                                         *)
(***************************************************************************)
SymOptSizes == {1, MaxHint, Symbolic(MaxHint)}

SymOptShapes ==
  {<<>>} \cup {<<d>> : d \in SymOptSizes} \cup {<<d, e>> : d, e \in SymOptSizes}

SymOptOps ==
  {Reshape(s) : s \in SymOptShapes}
  \cup {Transpose(p) : p \in {<<0>>, <<0, 1>>, <<1, 0>>}}
  \cup {Broadcast(f) : f \in UNION {[D -> {MaxHint, Symbolic(MaxHint)}] : D \in {{0}, {1}}}}

SymOptInit ==
  /\ ops \in UpToThree(SymOptOps)
  /\ input_shape \in SymOptShapes
  /\ pc = "ops"
  /\ equation = <<>>
  /\ index_sizes = EmptyDict
  /\ lhs = <<>>
  /\ rhs = <<>>
  /\ lhs_grouped = <<>>
  /\ j = 0
  /\ inferred_index_sizes = EmptyDict
  /\ optimized = <<>>
  /\ error = "none"
  /\ NotBuilt
  /\ NotScanning

(***************************************************************************)
(* The inputs of a run of the TensorFlow backend on a sequence of ops of   *)
(* its own: at most two ops, each a Reshape to one of the shapes, a        *)
(* Transpose of at most two axes or a Broadcast of one or two new axes of  *)
(* size MaxHint at positions 0..3, on a tensor of one of the shapes.       *)
(***************************************************************************)
TfOps ==
  {Reshape(s) : s \in Shapes}
  \cup {Transpose(p) : p \in {<<0>>, <<0, 1>>, <<1, 0>>}}
  \cup {Broadcast(f) :
          f \in UNION {[D -> {MaxHint}] : D \in {E \in SUBSET (0..3) : Cardinality(E) \in 1..2}}}

TfInit ==
  /\ ops \in {<<>>} \cup {<<o>> : o \in TfOps} \cup {<<o, p>> : o, p \in TfOps}
  /\ input_shape \in Shapes
  /\ pc = "ops"
  /\ equation = <<>>
  /\ index_sizes = EmptyDict
  /\ lhs = <<>>
  /\ rhs = <<>>
  /\ lhs_grouped = <<>>
  /\ j = 0
  /\ inferred_index_sizes = EmptyDict
  /\ optimized = <<>>
  /\ error = "none"
  /\ NotExecuted
  /\ NotScanning

(***************************************************************************)
(* The steps of one call.                                                  *)
(***************************************************************************)
Fail(msg) ==
  /\ pc' = "error"
  /\ error' = msg

\* generate_ops up to the loop over the LHS groups
Parse ==
  /\ pc = "start"
  /\ LET p == ParseEquation(equation, input_shape) IN
     IF p.err # "none"
     THEN /\ Fail(p.err)
          /\ UNCHANGED <<lhs, rhs, lhs_grouped, j, inferred_index_sizes>>
     ELSE /\ pc' = "solve"
          /\ lhs' = p.lhs
          /\ rhs' = p.rhs
          /\ lhs_grouped' = p.lhs_grouped
          /\ j' = 0
          /\ inferred_index_sizes' = index_sizes
          /\ UNCHANGED error
  /\ UNCHANGED <<equation, input_shape, index_sizes, ops, optimized>>
  /\ UNCHANGED execvars
  /\ UNCHANGED scanvars

\* one iteration of `for j, group in enumerate(lhs_grouped)`
Solve ==
  /\ pc = "solve"
  /\ j < Len(lhs_grouped)
  /\ LET r == SolveGroup(lhs_grouped[j + 1], input_shape[j + 1], index_sizes,
                         inferred_index_sizes) IN
     IF r.err # "none"
     THEN /\ Fail(r.err)
          /\ UNCHANGED <<j, inferred_index_sizes>>
     ELSE /\ j' = j + 1
          /\ inferred_index_sizes' = r.inferred
          /\ UNCHANGED <<pc, error>>
  /\ UNCHANGED <<equation, input_shape, index_sizes, lhs, rhs, lhs_grouped, ops, optimized>>
  /\ UNCHANGED execvars
  /\ UNCHANGED scanvars

\* generate_ops after the loop: the ops are built and returned
Generate ==
  /\ pc = "solve"
  /\ j = Len(lhs_grouped)
  /\ LET r == Synthesize(lhs_grouped, rhs, input_shape, inferred_index_sizes) IN
     IF r.err # "none"
     THEN /\ Fail(r.err)
          /\ UNCHANGED ops
     ELSE /\ pc' = "generated"
          /\ ops' = r.ops
          /\ UNCHANGED error
  /\ UNCHANGED <<equation, input_shape, index_sizes, lhs, rhs, lhs_grouped, j,
                 inferred_index_sizes, optimized>>
  /\ UNCHANGED execvars
  /\ UNCHANGED scanvars

\* optimizer.optimize on the generated ops
Optimize ==
  /\ pc = "generated"
  /\ pc' = "optimized"
  /\ optimized' = optimize(ops, input_shape)
  /\ UNCHANGED <<equation, input_shape, index_sizes, lhs, rhs, lhs_grouped, j,
                 inferred_index_sizes, ops, error>>
  /\ UNCHANGED execvars
  /\ UNCHANGED scanvars

\* optimizer.optimize on a sequence of ops
OptimizeOnce ==
  /\ pc = "ops"
  /\ LET r == OptimizeCall(ops, input_shape) IN
     IF r.err # "none"
     THEN /\ Fail(r.err)
          /\ UNCHANGED optimized
     ELSE /\ pc' = "optimized"
          /\ optimized' = r.ops
          /\ UNCHANGED error
  /\ UNCHANGED <<equation, input_shape, index_sizes, lhs, rhs, lhs_grouped, j,
                 inferred_index_sizes, ops>>
  /\ UNCHANGED execvars
  /\ UNCHANGED scanvars

\* optimizer.optimize on what it returned: ops = optimize(ops, shape), twice
OptimizeAgain ==
  /\ pc = "optimized"
  /\ LET r == OptimizeCall(optimized, input_shape) IN
     IF r.err # "none"
     THEN /\ Fail(r.err)
          /\ UNCHANGED <<ops, optimized>>
     ELSE /\ pc' = "reoptimized"
          /\ ops' = optimized
          /\ optimized' = r.ops
          /\ UNCHANGED error
  /\ UNCHANGED <<equation, input_shape, index_sizes, lhs, rhs, lhs_grouped, j,
                 inferred_index_sizes>>
  /\ UNCHANGED execvars
  /\ UNCHANGED scanvars

\* Backend.exec: ops = self._preprocess(ops, shape)
Preprocess ==
  /\ pc = "generated"
  /\ pc' = "preprocessed"
  /\ preprocessed' = _preprocess(ops, input_shape)
  /\ calls' = Append(calls, Call("_preprocess", ops, input_shape))
  /\ UNCHANGED <<equation, input_shape, index_sizes, lhs, rhs, lhs_grouped, j,
                 inferred_index_sizes, ops, optimized, error, exec_value, op_index>>
  /\ UNCHANGED scanvars

\* Backend.exec: ops = optimizer.optimize(ops, shape)
OptimizePreprocessed ==
  /\ pc = "preprocessed"
  /\ pc' = "executing"
  /\ optimized' = optimize(preprocessed, input_shape)
  /\ UNCHANGED <<equation, input_shape, index_sizes, lhs, rhs, lhs_grouped, j,
                 inferred_index_sizes, ops, error>>
  /\ UNCHANGED execvars
  /\ UNCHANGED scanvars

\* Backend.exec: one iteration of `for op in ops: value = op.execute(self, value)`
Execute ==
  /\ pc = "executing"
  /\ op_index < Len(optimized)
  /\ LET o == optimized[op_index + 1]
         r == execute(o, exec_value)
     IN /\ calls' = Append(calls, Call(Primitive(o), o, exec_value))
        /\ IF r.err # "none"
           THEN /\ Fail(r.err)
                /\ UNCHANGED <<exec_value, op_index>>
           ELSE /\ exec_value' = r
                /\ op_index' = op_index + 1
                /\ UNCHANGED <<pc, error>>
  /\ UNCHANGED <<equation, input_shape, index_sizes, lhs, rhs, lhs_grouped, j,
                 inferred_index_sizes, ops, optimized, preprocessed>>
  /\ UNCHANGED scanvars

\* Backend.exec: return value
Return ==
  /\ pc = "executing"
  /\ op_index = Len(optimized)
  /\ pc' = "returned"
  /\ UNCHANGED <<equation, input_shape, index_sizes, lhs, rhs, lhs_grouped, j,
                 inferred_index_sizes, ops, optimized, error>>
  /\ UNCHANGED execvars
  /\ UNCHANGED scanvars

\* generate_ops up to its first call of _group_dimensions (lines 121-131)
Enter ==
  /\ pc = "start"
  /\ IF equation # Lower(equation)
     THEN /\ Fail("Shape Equation may not use upper-case indices")
          /\ UNCHANGED <<lhs, rhs, scanvars>>
     ELSE LET expression_list == Split(equation, Arrow, <<>>) IN
          IF Len(expression_list) # 2
          THEN /\ Fail("Shape Equation requires a single arrow")
               /\ UNCHANGED <<lhs, rhs, scanvars>>
          ELSE /\ pc' = "scan"
               /\ lhs' = expression_list[1]
               /\ rhs' = expression_list[2]
               /\ scan_expr' = expression_list[1]
               /\ scan_i' = 1
               /\ scan_groups' = <<>>
               /\ UNCHANGED error
  /\ UNCHANGED <<equation, input_shape, index_sizes, lhs_grouped, j, inferred_index_sizes,
                 ops, optimized>>
  /\ UNCHANGED execvars

\* variant of ScanStep: a 1 is read without moving on
ScanStep_StuckAtOne ==
  /\ pc = "scan"
  /\ scan_i <= Len(scan_expr)
  /\ LET it == ScanIteration(scan_expr, scan_i, scan_groups) IN
     IF it.err # "none"
     THEN /\ Fail(it.err)
          /\ UNCHANGED scanvars
     ELSE /\ scan_i' = IF scan_expr[scan_i] = "1" THEN scan_i ELSE it.i
          /\ scan_groups' = IF scan_expr[scan_i] = "1" THEN scan_groups ELSE it.groups
          /\ UNCHANGED <<scan_expr, pc, error>>
  /\ UNCHANGED <<equation, input_shape, index_sizes, lhs, rhs, lhs_grouped, j,
                 inferred_index_sizes, ops, optimized>>
  /\ UNCHANGED execvars

\* _group_dimensions: one iteration of `while i < len(expr)`
ScanStep ==
  /\ pc = "scan"
  /\ scan_i <= Len(scan_expr)
  /\ LET it == ScanIteration(scan_expr, scan_i, scan_groups) IN
     IF it.err # "none"
     THEN /\ Fail(it.err)
          /\ UNCHANGED scanvars
     ELSE /\ scan_i' = it.i
          /\ scan_groups' = it.groups
          /\ UNCHANGED <<scan_expr, pc, error>>
  /\ UNCHANGED <<equation, input_shape, index_sizes, lhs, rhs, lhs_grouped, j,
                 inferred_index_sizes, ops, optimized>>
  /\ UNCHANGED execvars

\* _group_dimensions returns its groups, and generate_ops goes on to the loop over
\* them (lines 133-157)
ScanReturn ==
  /\ pc = "scan"
  /\ scan_i > Len(scan_expr)
  /\ LET p == AfterGrouping(lhs, rhs, scan_groups, input_shape) IN
     IF p.err # "none"
     THEN /\ Fail(p.err)
          /\ UNCHANGED <<lhs, rhs, lhs_grouped, j, inferred_index_sizes>>
     ELSE /\ pc' = "solve"
          /\ lhs' = p.lhs
          /\ rhs' = p.rhs
          /\ lhs_grouped' = p.lhs_grouped
          /\ j' = 0
          /\ inferred_index_sizes' = index_sizes
          /\ UNCHANGED error
  /\ UNCHANGED <<equation, input_shape, index_sizes, ops, optimized>>
  /\ UNCHANGED execvars
  /\ UNCHANGED scanvars

\* Backend.exec of _TFBackend: ops = self._preprocess(ops, shape)
TfPreprocess ==
  /\ pc = "ops"
  /\ LET r == preprocess(ops, input_shape) IN
     IF r.err # "none"
     THEN /\ Fail(r.err)
          /\ UNCHANGED <<preprocessed, calls>>
     ELSE /\ pc' = "preprocessed"
          /\ preprocessed' = r.ops
          /\ calls' = Append(calls, Call("_preprocess", ops, input_shape))
          /\ UNCHANGED error
  /\ UNCHANGED <<equation, input_shape, index_sizes, lhs, rhs, lhs_grouped, j,
                 inferred_index_sizes, ops, optimized, exec_value, op_index>>
  /\ UNCHANGED scanvars

\* Backend.exec of _TFBackend: one iteration of `for op in ops`
TfExecute ==
  /\ pc = "executing"
  /\ op_index < Len(optimized)
  /\ LET o == optimized[op_index + 1]
         r == tf_execute(o, exec_value)
     IN /\ calls' = Append(calls, Call(TfPrimitive(o), o, exec_value))
        /\ IF r.err # "none"
           THEN /\ Fail(r.err)
                /\ UNCHANGED <<exec_value, op_index>>
           ELSE /\ exec_value' = r
                /\ op_index' = op_index + 1
                /\ UNCHANGED <<pc, error>>
  /\ UNCHANGED <<equation, input_shape, index_sizes, lhs, rhs, lhs_grouped, j,
                 inferred_index_sizes, ops, optimized, preprocessed>>
  /\ UNCHANGED scanvars

Next == Parse \/ Solve \/ Generate \/ Optimize

Spec == Init /\ [][Next]_vars

\* the same call, on the inputs whose LHS has a wildcard
WildcardSpec == WildcardInit /\ [][Next]_vars

\* the same call, on arbitrary strings and on sizes that may be 0
AnySpec == AnyInit /\ [][Next]_vars

\* Backend.exec with the numpy backend, stage by stage
ExecNext ==
  Parse \/ Solve \/ Generate \/ Preprocess \/ OptimizePreprocessed \/ Execute \/ Return

ExecSpec == Init /\ [][ExecNext]_vars

\* optimizer.optimize called on a sequence of ops, then on its own result
OptNext == OptimizeOnce \/ OptimizeAgain

OptSpec == OptInit /\ [][OptNext]_vars

\* generate_ops and optimize on symbolic sizes
SymSpec == SymInit /\ [][Next]_vars

\* optimize on ops with symbolic sizes
SymOptSpec == SymOptInit /\ [][OptNext]_vars

\* Backend.exec of the TensorFlow backend, from the ops on
TfNext == TfPreprocess \/ OptimizePreprocessed \/ TfExecute \/ Return

TfSpec == TfInit /\ [][TfNext]_vars

\* generate_ops with the scan of the LHS taken one iteration at a time; every call
\* runs on: a step that can be taken is taken
TermNext == Enter \/ ScanStep \/ ScanReturn \/ Solve \/ Generate

TermSpec == TermInit /\ [][TermNext]_vars /\ WF_vars(TermNext)

(***************************************************************************)
(* Vocabulary of the properties.                                           *)
(***************************************************************************)
\* generate_ops has returned
Accepted == pc \in {"generated", "optimized"}

\* generate_ops has raised
Rejected == pc = "error"

\* the call is over: the ops are returned or an exception is raised
Returned == Accepted \/ Rejected

HasOp(s, name) == \E n \in DOMAIN s : s[n].op = name
OpsNamed(s, name) == SelectSeq(s, LAMBDA o : o.op = name)

\* the two sides of the equation as written, and as generate_ops reads them once
\* the rank check has passed (the wildcard replaced by A, B, ...)
Written == Split(equation, Arrow, <<>>)
LhsIndices == SelectSeq(lhs, IsAlpha)
RhsIndices == SelectSeq(rhs, IsAlpha)
SharedIndices == SelectSeq(RhsIndices, LAMBDA a : a \in Range(LhsIndices))
NewIndices == SelectSeq(RhsIndices, LAMBDA a : a \notin Range(LhsIndices))

\* the product of the sizes of a group's indices
SizeOf(group, size) == Product([n \in DOMAIN group |-> size[group[n]]])

\* the position, within the axis of a group, of an assignment of values to indices
Within(group, value, size) ==
  Ravel([n \in DOMAIN group |-> value[group[n]]], [n \in DOMAIN group |-> size[group[n]]])

\* the row-major position, in a tensor of the given shape whose axes are the given
\* groups, of an assignment of values to indices
Position(groups, value, size, shape) ==
  Ravel([g \in DOMAIN groups |-> Within(groups[g], value, size)], shape)

\* the assignments of a value below its size to each of the given indices
Assignments(indices, size) ==
  {value \in [Range(indices) -> 0..MaxElems] : \A a \in Range(indices) : value[a] < size[a]}

(***************************************************************************)
(* C1: for an accepted equation whose indices are pairwise distinct on     *)
(* each side, running the returned ops in order on the input gives a       *)
(* tensor whose shape is the list of the RHS group sizes and whose element *)
(* at each assignment of values to the RHS indices is the input element at *)
(* the same assignment of the LHS indices.  The sizes are the hinted ones, *)
(* and on each input axis they multiply to the size of the axis.           *)
(***************************************************************************)
C1_Precondition ==
  /\ Accepted
  /\ Distinct(LhsIndices)
  /\ Distinct(RhsIndices)

C1_ExecutionCorrect ==
  C1_Precondition =>
    LET size == inferred_index_sizes
        rhs_grouped == _group_dimensions(rhs).groups
        out == Run(ops, Iota(input_shape))
    IN /\ out.err = "none"
       /\ \A a \in DOMAIN index_sizes : size[a] = index_sizes[a]
       /\ \A g \in DOMAIN lhs_grouped : SizeOf(lhs_grouped[g], size) = input_shape[g]
       /\ out.shape = [g \in DOMAIN rhs_grouped |-> SizeOf(rhs_grouped[g], size)]
       /\ \A value \in Assignments(RhsIndices, size) :
            out.data[Position(rhs_grouped, value, size, out.shape) + 1]
              = Position(lhs_grouped, value, size, input_shape)

\* an ungrouping, a transposition and a broadcast of a tensor of four elements
C1_Witness ==
  /\ C1_Precondition
  /\ HasOp(ops, "Transpose")
  /\ HasOp(ops, "Broadcast")
  /\ Len(LhsIndices) > Len(input_shape)
  /\ Product(input_shape) = 4
  /\ \A a \in Range(SharedIndices) : inferred_index_sizes[a] > 1

(***************************************************************************)
(* C2, as amended: for an equation e->e where e has no repeated letters,   *)
(* no parentheses and no wildcard, no size hints, and an input shape of    *)
(* the rank of e whose size is 1 on every axis that e writes as 1, the     *)
(* call is not rejected and optimize(generate_ops(...)) is empty.          *)
(***************************************************************************)
\* e->e, e made of pairwise distinct lower-case letters and of 1s, without hints
C2_IdentityEquation ==
  /\ Len(Written) = 2
  /\ Written[1] = Written[2]
  /\ \A n \in DOMAIN Written[1] : Written[1][n] \in Range(ascii_lowercase) \cup {"1"}
  /\ Distinct(IndicesOf(Written[1]))
  /\ DOMAIN index_sizes = {}
  /\ Len(input_shape) = Len(Written[1])

C2_OnesMatch ==
  \A n \in DOMAIN Written[1] : Written[1][n] = "1" => input_shape[n] = 1

C2_ReducesToNothing ==
  /\ ~Rejected
  /\ pc = "optimized" => optimized = <<>>

C2_IdentityLaw ==
  ~C2_ReducesToNothing => ~(C2_IdentityEquation /\ C2_OnesMatch)

\* i1->i1 (or 1i->1i) on a tensor of more than one element, optimized
C2_Witness ==
  /\ C2_IdentityEquation
  /\ C2_OnesMatch
  /\ pc = "optimized"
  /\ "1" \in Range(Written[1])
  /\ Product(input_shape) > 1
  /\ Len(ops) = 2

\* C2 as stated: the same for every input shape whose rank matches e
C2_IdentityLaw_AsStated == ~C2_ReducesToNothing => ~C2_IdentityEquation

(***************************************************************************)
(* C3, as stated: when an index used on the RHS occurs more than once      *)
(* across the LHS groups, generate_ops fails.                              *)
(***************************************************************************)
C3_DuplicatedLhsIndexRejected ==
  Accepted => ~(\E a \in Range(RhsIndices) : Count(LhsIndices, a) > 1)

(***************************************************************************)
(* C4: when the LHS indices are pairwise distinct and one of them is       *)
(* absent from the RHS or occurs there more than once, generate_ops fails. *)
(***************************************************************************)
C4_Precondition ==
  /\ Distinct(LhsIndices)
  /\ \E a \in Range(LhsIndices) : Count(RhsIndices, a) # 1

C4_SharedIndicesBijective == Accepted => ~C4_Precondition

\* an LHS index written twice on the RHS, every RHS index being once on the LHS
C4_Witness ==
  /\ Rejected
  /\ C4_Precondition
  /\ error = "Every index in LHS must occur exactly once in RHS"
  /\ \E a \in Range(LhsIndices) : Count(RhsIndices, a) > 1

(***************************************************************************)
(* C5: without a wildcard on the LHS the call goes no further than the     *)
(* rank check unless the rank of the input is the number of LHS groups;    *)
(* with a wildcard (one group) it goes no further if the rank is below the *)
(* number of LHS groups minus one.                                         *)
(***************************************************************************)
C5_WrittenLhsGroups == _group_dimensions(Written[1])

C5_Precondition ==
  /\ equation = Lower(equation)
  /\ Len(Written) = 2
  /\ C5_WrittenLhsGroups.err = "none"
  /\ LET groups == C5_WrittenLhsGroups.groups
     IN IF \E g \in DOMAIN groups : groups[g] = Wildcard
        THEN Len(input_shape) < Len(groups) - 1
        ELSE Len(input_shape) # Len(groups)

C5_RankChecked == pc \notin {"start", "error"} => ~C5_Precondition

\* a wildcard LHS with too few input axes, rejected
C5_Witness ==
  /\ C5_Precondition
  /\ Wildcard \in Range(C5_WrittenLhsGroups.groups)
  /\ Rejected
  /\ error = "Input shape must have rank matching LHS"

(***************************************************************************)
(* C6: for an LHS group with exactly one unhinted index, input axis size s *)
(* and product known >= 1 of the hints of its other indices: the loop does *)
(* not get past the group if s % known # 0, and when it has just got past  *)
(* it the size recorded for the unhinted index is s \div known.            *)
(***************************************************************************)
\* the unhinted indices of a group, and the product of the hints of the others
Unhinted(group) == SelectSeq(group, LAMBDA a : a \notin DOMAIN index_sizes)
Known(group) ==
  Product([n \in DOMAIN SelectSeq(group, LAMBDA a : a \in DOMAIN index_sizes) |->
             index_sizes[SelectSeq(group, LAMBDA a : a \in DOMAIN index_sizes)[n]]])

C6_Case(g) ==
  /\ Len(Unhinted(lhs_grouped[g])) = 1
  /\ Known(lhs_grouped[g]) >= 1

C6_UngroupInferred ==
  /\ \A g \in DOMAIN lhs_grouped :
       C6_Case(g) /\ input_shape[g] % Known(lhs_grouped[g]) # 0 => j < g
  /\ j >= 1 /\ C6_Case(j) =>
       inferred_index_sizes[Unhinted(lhs_grouped[j])[1]]
         = input_shape[j] \div Known(lhs_grouped[j])

\* a group of two indices, one hinted, just passed: both sizes above 1
C6_Witness ==
  /\ pc = "solve"
  /\ j >= 1
  /\ C6_Case(j)
  /\ Known(lhs_grouped[j]) > 1
  /\ inferred_index_sizes[Unhinted(lhs_grouped[j])[1]] > 1

(***************************************************************************)
(* C7: the loop does not get past an LHS group that has more than one      *)
(* index without a size hint, so generate_ops fails.                       *)
(***************************************************************************)
C7_UnderspecifiedRejected ==
  \A g \in DOMAIN lhs_grouped : Len(Unhinted(lhs_grouped[g])) > 1 => j < g

\* rejected at a group of two different unhinted indices
C7_Witness ==
  /\ Rejected
  /\ error = "All but one of the indices must have their size specified"
  /\ j < Len(lhs_grouped)
  /\ Len(Unhinted(lhs_grouped[j + 1])) = 2
  /\ Distinct(lhs_grouped[j + 1])

(***************************************************************************)
(* C8: the loop does not get past an LHS group all of whose indices are    *)
(* hinted (the group written 1 included, whose product is 1) unless the    *)
(* input axis size equals the product of the hints.                        *)
(***************************************************************************)
C8_FullyHintedChecked ==
  \A g \in DOMAIN lhs_grouped :
    Unhinted(lhs_grouped[g]) = <<>> /\ input_shape[g] # Known(lhs_grouped[g]) => j < g

\* rejected at a 1 written against an axis of size above 1
C8_Witness ==
  /\ Rejected
  /\ error = "Input shape incompatible with index sizes"
  /\ j < Len(lhs_grouped)
  /\ lhs_grouped[j + 1] = <<>>
  /\ input_shape[j + 1] > 1

(***************************************************************************)
(* C9: the returned ops hold a Transpose exactly when the shared indices,  *)
(* in RHS order, differ from the ungrouped LHS; its perm[i] is then the    *)
(* position in the ungrouped LHS of the i-th shared index of the RHS.      *)
(***************************************************************************)
C9_TransposeByRhsOrder ==
  Accepted =>
    /\ HasOp(ops, "Transpose") <=> SharedIndices # LhsIndices
    /\ \A n \in DOMAIN ops :
         ops[n].op = "Transpose" =>
           /\ Len(ops[n].perm) = Len(SharedIndices)
           /\ \A i \in DOMAIN SharedIndices :
                /\ ops[n].perm[i] \in 0..(Len(LhsIndices) - 1)
                /\ LhsIndices[ops[n].perm[i] + 1] = SharedIndices[i]

\* a Transpose whose perm is not its own inverse
C9_Witness ==
  /\ Accepted
  /\ \E n \in DOMAIN ops :
       /\ ops[n].op = "Transpose"
       /\ \E i \in DOMAIN ops[n].perm : ops[n].perm[ops[n].perm[i] + 1] # i - 1

(***************************************************************************)
(* C10: the returned ops hold a Broadcast exactly when the flattened RHS   *)
(* has an index absent from the LHS; its axis_sizes maps the position of   *)
(* each such index in the flattened RHS to the index's hinted size; and    *)
(* generate_ops fails if such an index has no hinted size.                 *)
(***************************************************************************)
C10_NewPositions == {n - 1 : n \in {m \in DOMAIN RhsIndices : RhsIndices[m] \notin Range(LhsIndices)}}

C10_BroadcastByRhsPosition ==
  Accepted =>
       /\ \A a \in Range(NewIndices) : a \in DOMAIN index_sizes
       /\ HasOp(ops, "Broadcast") <=> NewIndices # <<>>
       /\ \A n \in DOMAIN ops :
            ops[n].op = "Broadcast" =>
              /\ DOMAIN ops[n].axis_sizes = C10_NewPositions
              /\ \A p \in C10_NewPositions :
                   ops[n].axis_sizes[p] = index_sizes[RhsIndices[p + 1]]

\* two new axes with a shared index between them
C10_Witness ==
  /\ Accepted
  /\ \E n \in DOMAIN ops :
       /\ ops[n].op = "Broadcast"
       /\ DOMAIN ops[n].axis_sizes = {0, 2}
  /\ Len(RhsIndices) = 3

(***************************************************************************)
(* C11: the last op returned by generate_ops is a Reshape whose shape has  *)
(* one entry per RHS group, in RHS order, each the product of the sizes of *)
(* the group's indices (1 for a group written 1 or ()).                    *)
(***************************************************************************)
C11_LastIsRegroup ==
  Accepted =>
    LET rhs_grouped == _group_dimensions(rhs).groups
        last == ops[Len(ops)]
    IN /\ last.op = "Reshape"
       /\ Len(last.shape) = Len(rhs_grouped)
       /\ \A g \in DOMAIN rhs_grouped :
            last.shape[g] = SizeOf(rhs_grouped[g], inferred_index_sizes)

\* an RHS of a 1 and of a group of two indices, both of a size above 1
C11_Witness ==
  /\ Accepted
  /\ ops[Len(ops)].op = "Reshape"
  /\ Product(input_shape) > 1
  /\ LET rhs_grouped == _group_dimensions(rhs).groups
     IN /\ Len(rhs_grouped) = 2
        /\ \E g, h \in DOMAIN rhs_grouped :
             /\ rhs_grouped[g] = <<>>
             /\ Len(rhs_grouped[h]) = 2
             /\ \A n \in DOMAIN rhs_grouped[h] :
                  inferred_index_sizes[rhs_grouped[h][n]] > 1

(***************************************************************************)
(* C12: when the LHS has a wildcard that captures k >= 0 axes, the call    *)
(* returns the ops, or raises the error, of the call on the equation in    *)
(* which every ... is replaced by the same k letters that occur nowhere in *)
(* the equation.                                                           *)
(***************************************************************************)
\* k = len(input_shape) - (number of LHS groups - 1), for the LHS as written
C12_NumWildcardDims == Len(input_shape) - (Len(_group_dimensions(Written[1]).groups) - 1)

\* the first k lower-case letters that the equation does not use
C12_Fresh ==
  SubSeq(SelectSeq(ascii_lowercase, LAMBDA a : a \notin Range(equation)),
         1, C12_NumWildcardDims)

C12_Case ==
  /\ Wildcard \in Range(_group_dimensions(Written[1]).groups)
  /\ C12_NumWildcardDims >= 0

C12_WildcardAsFreshIndices ==
  Returned /\ C12_Case =>
    LET r == generate_ops(Replace(equation, Wildcard, C12_Fresh), input_shape, index_sizes)
    IN /\ Accepted <=> r.err = "none"
       /\ r.err = error
       /\ r.ops = ops

\* i...j->j...i on three axes: the middle axis stays in place
C12_Witness ==
  /\ Accepted
  /\ C12_Case
  /\ C12_NumWildcardDims = 1
  /\ lhs = <<"i", "A", "j">>
  /\ rhs = <<"j", "A", "i">>
  /\ \E n \in DOMAIN ops : ops[n].op = "Transpose" /\ ops[n].perm = <<2, 1, 0>>
  /\ input_shape[1] > 1
  /\ input_shape[3] > 1

(***************************************************************************)
(* C13: an equation with more than one ... on the same side is rejected,   *)
(* whatever the input shape.                                               *)
(***************************************************************************)
\* the number of ... tokens of an expression
C13_Wildcards(expr) == Len(Split(expr, Wildcard, <<>>)) - 1

C13_RepeatedWildcardRejected ==
  Accepted => \A n \in DOMAIN Written : C13_Wildcards(Written[n]) <= 1

(***************************************************************************)
(* C14: an equation is rejected if a side has a character other than a     *)
(* lower-case ASCII letter, 1, ( or ) outside its ... tokens, or has an    *)
(* unclosed or nested parenthesis, or if the equation has not exactly one  *)
(* ->, or has an upper-case letter.                                        *)
(***************************************************************************)
\* every ( is closed before the next ( and before the end
RECURSIVE C14_Flat(_, _, _)
C14_Flat(expr, n, open) ==
  IF n > Len(expr) THEN ~open
  ELSE IF expr[n] = "(" THEN ~open /\ C14_Flat(expr, n + 1, TRUE)
  ELSE IF expr[n] = ")" THEN C14_Flat(expr, n + 1, FALSE)
  ELSE C14_Flat(expr, n + 1, open)

C14_LegalSide(expr, letters) ==
  /\ \A c \in Range(Replace(expr, Wildcard, <<>>)) : c \in letters \cup {"1", "(", ")"}
  /\ C14_Flat(expr, 1, FALSE)

C14_WellFormed(letters) ==
  /\ Len(Written) = 2
  /\ \A c \in Range(equation) : ~IsUpper(c)
  /\ \A n \in DOMAIN Written : C14_LegalSide(Written[n], letters)

C14_MalformedRejected == Accepted => C14_WellFormed(Range(ascii_lowercase))

(***************************************************************************)
(* C15: with sizes and hints that are non-negative integers, the call      *)
(* returns or raises a ValueError; it raises no arithmetic, index or key   *)
(* error.                                                                  *)
(***************************************************************************)
\* the ValueErrors that generate_ops raises
C15_ValueErrors ==
  {"Shape Equation may not use upper-case indices",
   "Shape Equation requires a single arrow",
   "Unclosed parenthesis",
   "Wildcard may only occur once",
   "Illegal character",
   "Too many dimensions",
   "Input shape must have rank matching LHS",
   "All but one of the indices must have their size specified",
   "Dimension to ungroup is not divisible by its index sizes",
   "Input shape incompatible with index sizes",
   "Broadcast multiples must be specified",
   "Every index in RHS must occur exactly once in LHS",
   "Every index in LHS must occur exactly once in RHS"}

C15_OnlyValidationErrors == Rejected => error \in C15_ValueErrors

(***************************************************************************)
(* C16: the returned ops are [Reshape, Transpose?, Broadcast?, Reshape]:   *)
(* two to four ops, the first and the last a Reshape whether or not it     *)
(* changes the shape, at most one Transpose, at most one Broadcast, and no *)
(* Transpose after a Broadcast.                                            *)
(***************************************************************************)
C16_FixedForm ==
  Accepted =>
    /\ Len(ops) \in 2..4
    /\ ops[1].op = "Reshape"
    /\ ops[Len(ops)].op = "Reshape"
    /\ \A n \in 2..(Len(ops) - 1) : ops[n].op \in {"Transpose", "Broadcast"}
    /\ Cardinality({n \in DOMAIN ops : ops[n].op = "Transpose"}) <= 1
    /\ Cardinality({n \in DOMAIN ops : ops[n].op = "Broadcast"}) <= 1
    /\ \A m, n \in DOMAIN ops :
         ops[m].op = "Broadcast" /\ ops[n].op = "Transpose" => n < m

\* all four ops, the first Reshape being an identity on the input
C16_Witness ==
  /\ Accepted
  /\ Len(ops) = 4
  /\ ops[1].shape = input_shape
  /\ Product(input_shape) > 1

(***************************************************************************)
(* C17: optimize is idempotent: called on its own result with the same     *)
(* input shape, it returns that result.                                    *)
(***************************************************************************)
C17_Idempotent == pc = "reoptimized" => optimized = ops

\* the second call is made on a Transpose followed by a Reshape that the first left
C17_Witness ==
  /\ pc = "reoptimized"
  /\ Len(ops) = 2
  /\ ops[1] = Transpose(<<1, 0>>)
  /\ ops[2].op = "Reshape"
  /\ Product(input_shape) > 1

(***************************************************************************)
(* C18: if the ops can be executed on a tensor of the input shape, the     *)
(* optimized ops give a tensor of the same shape and the same elements.    *)
(***************************************************************************)
C18_Executable == Run(ops, Iota(input_shape)).err = "none"

C18_SameResult ==
  pc = "optimized" /\ C18_Executable =>
    Run(optimized, Iota(input_shape)) = Run(ops, Iota(input_shape))

\* three executable ops of which optimize keeps one Reshape that changes the shape
C18_Witness ==
  /\ pc = "optimized"
  /\ C18_Executable
  /\ Len(ops) = 3
  /\ Len(optimized) = 1
  /\ optimized[1].op = "Reshape"
  /\ Product(input_shape) > 1

(***************************************************************************)
(* C19: optimize removes only Reshapes: the Transposes and Broadcasts of   *)
(* the result are those of the ops, in the same order, and the result is a *)
(* subsequence of the ops.                                                 *)
(***************************************************************************)
C19_NonReshapes(s) == SelectSeq(s, LAMBDA o : o.op # "Reshape")

\* s is obtained from t by removing elements
RECURSIVE C19_IsSubsequence(_, _)
C19_IsSubsequence(s, t) ==
  IF s = <<>> THEN TRUE
  ELSE IF t = <<>> THEN FALSE
  ELSE IF Head(s) = Head(t) THEN C19_IsSubsequence(Tail(s), Tail(t))
  ELSE C19_IsSubsequence(s, Tail(t))

C19_OnlyReshapesRemoved ==
  pc = "optimized" =>
    /\ C19_NonReshapes(optimized) = C19_NonReshapes(ops)
    /\ C19_IsSubsequence(optimized, ops)

\* a Transpose that leaves the shape as it is stays, the Reshapes around it go
C19_Witness ==
  /\ pc = "optimized"
  /\ Len(ops) = 3
  /\ ops[2] = Transpose(<<1, 0>>)
  /\ input_shape = <<2, 2>>
  /\ optimized = <<ops[2]>>

(***************************************************************************)
(* C20: Backend.exec calls generate_ops, then _preprocess once on the      *)
(* generated ops and the original shape (the default returns them as they  *)
(* are), then optimize on the preprocessed ops, then executes the          *)
(* optimized ops, each once, in order, each on the result of the one       *)
(* before; if generate_ops fails, nothing is called on the backend.        *)
(***************************************************************************)
\* generate_ops has returned and exec has gone on
C20_Preprocessed ==
  pc \in {"preprocessed", "executing", "returned"} \/ (pc = "error" /\ ops # <<>>)

\* optimize has returned
C20_Optimized == pc \in {"executing", "returned"} \/ (pc = "error" /\ ops # <<>>)

\* the number of ops whose execution has begun
C20_Begun == IF pc = "error" THEN op_index + 1 ELSE op_index

C20_StagesInOrder ==
  /\ pc \in {"start", "solve", "generated"} \/ (pc = "error" /\ ops = <<>>) =>
       /\ calls = <<>>
       /\ exec_value = Iota(input_shape)
  /\ C20_Preprocessed =>
       /\ calls[1] = Call("_preprocess", ops, input_shape)
       /\ preprocessed = ops
       /\ \A n \in 2..Len(calls) : calls[n].fn # "_preprocess"
  /\ pc = "preprocessed" => Len(calls) = 1 /\ exec_value = Iota(input_shape)
  /\ C20_Optimized =>
       /\ optimized = optimize(preprocessed, input_shape)
       /\ Len(calls) = 1 + C20_Begun
       /\ C20_Begun <= Len(optimized)
       /\ \A n \in 1..C20_Begun :
            calls[n + 1] = Call(Primitive(optimized[n]), optimized[n],
                                Run(SubSeq(optimized, 1, n - 1), Iota(input_shape)))
       /\ exec_value = Run(SubSeq(optimized, 1, op_index), Iota(input_shape))
  /\ pc = "returned" => op_index = Len(optimized)

\* exec has returned after a transpose and a reshape of a tensor of four elements
C20_Witness ==
  /\ pc = "returned"
  /\ Len(calls) = 3
  /\ calls[2].fn = "transpose"
  /\ calls[3].fn = "reshape"
  /\ input_shape = <<2, 2>>
  /\ exec_value.shape # input_shape

(***************************************************************************)
(* C22: the first op returned by generate_ops is a Reshape with one entry  *)
(* per index letter of the (wildcard-expanded) LHS, in LHS order: the      *)
(* index's hint if it has one, else the size inferred for it; a 1 or an    *)
(* empty group of the LHS gives no entry.                                  *)
(***************************************************************************)
C22_FirstIsUngroup ==
  Accepted =>
    /\ ops[1].op = "Reshape"
    /\ Len(ops[1].shape) = Len(LhsIndices)
    /\ \A n \in DOMAIN LhsIndices :
         ops[1].shape[n] = IF LhsIndices[n] \in DOMAIN index_sizes
                           THEN index_sizes[LhsIndices[n]]
                           ELSE inferred_index_sizes[LhsIndices[n]]

\* an LHS of a 1 and of a group of a hinted and of an unhinted index, in this
\* order, the two sizes different
C22_Witness ==
  /\ Accepted
  /\ lhs = <<"1", "(", "i", "j", ")">>
  /\ "i" \in DOMAIN index_sizes
  /\ "j" \notin DOMAIN index_sizes
  /\ ops[1] = Reshape(<<index_sizes["i"], input_shape[2] \div index_sizes["i"]>>)
  /\ ops[1].shape[1] # ops[1].shape[2]

(***************************************************************************)
(* C28: for every accepted call the product of the first Reshape's shape   *)
(* is the product of input_shape, and the product of the last Reshape's    *)
(* shape is the product of input_shape times the product of the sizes of   *)
(* the Broadcast's axes.                                                   *)
(***************************************************************************)
\* the product of the axis sizes of the Broadcast ops of a sequence
C28_BroadcastFactor(s) ==
  LET b == OpsNamed(s, "Broadcast")
      sizes(d) == [n \in 1..Cardinality(DOMAIN d) |->
                     d[CHOOSE p \in DOMAIN d : Cardinality({q \in DOMAIN d : q < p}) = n - 1]]
  IN Product([n \in DOMAIN b |-> Product(sizes(b[n].axis_sizes))])

C28_ElementCountPreserved ==
  Accepted =>
    /\ Product(ops[1].shape) = Product(input_shape)
    /\ Product(ops[Len(ops)].shape) = Product(input_shape) * C28_BroadcastFactor(ops)

(***************************************************************************)
(* C30: generate_ops rejects every equation in which an index absent from  *)
(* the LHS occurs more than once on the RHS.                               *)
(***************************************************************************)
C30_RepeatedBroadcastIndex ==
  \E a \in Range(Letters) :
    /\ Count(Written[1], a) = 0
    /\ Count(Written[2], a) > 1

C30_RepeatedBroadcastIndexRejected ==
  Returned /\ C30_RepeatedBroadcastIndex => Rejected

(***************************************************************************)
(* C29: the perm of a Transpose returned by generate_ops is a permutation  *)
(* of 0..k-1, k the length of the first Reshape's shape: it has k entries  *)
(* and every axis of the ungrouped tensor is one of them.                  *)
(***************************************************************************)
C29_PermIsPermutation ==
  Accepted =>
    \A n \in DOMAIN ops :
      ops[n].op = "Transpose" =>
        /\ Len(ops[n].perm) = Len(ops[1].shape)
        /\ Range(ops[n].perm) = 0..(Len(ops[1].shape) - 1)

\* a Transpose of three axes that moves each of them
C29_Witness ==
  /\ Accepted
  /\ Len(ops[1].shape) = 3
  /\ \E n \in DOMAIN ops :
       /\ ops[n].op = "Transpose"
       /\ \A m \in DOMAIN ops[n].perm : ops[n].perm[m] # m - 1

(***************************************************************************)
(* C25: the first pass of optimize removes exactly the Reshapes that are   *)
(* immediately followed by another Reshape (it keeps the last Reshape of   *)
(* every run of adjacent Reshapes, and every other op), and the result of  *)
(* optimize has no two adjacent Reshapes.                                  *)
(***************************************************************************)
\* a sequence without its Reshapes that another Reshape follows immediately
RECURSIVE C25_WithoutFollowedReshapes(_)
C25_WithoutFollowedReshapes(s) ==
  IF Len(s) <= 1 THEN s
  ELSE IF s[1].op = "Reshape" /\ s[2].op = "Reshape"
    THEN C25_WithoutFollowedReshapes(Tail(s))
    ELSE <<s[1]>> \o C25_WithoutFollowedReshapes(Tail(s))

C25_AdjacentReshapes(s) ==
  \E n \in 1..(Len(s) - 1) : s[n].op = "Reshape" /\ s[n + 1].op = "Reshape"

C25_ContiguousReshapesElided ==
  /\ _elide_intermediate_reshapes(ops) = C25_WithoutFollowedReshapes(ops)
  /\ pc \in {"optimized", "reoptimized"} => ~C25_AdjacentReshapes(optimized)

\* a run of two Reshapes, neither of them a no-op, before a Transpose: the second
\* Reshape is kept
C25_Witness ==
  /\ pc = "optimized"
  /\ Len(ops) = 3
  /\ C25_AdjacentReshapes(ops)
  /\ ops[3].op = "Transpose"
  /\ optimized = <<ops[2], ops[3]>>

(***************************************************************************)
(* C27: every iteration of the grouper's scan raises or moves the scan     *)
(* position strictly forward, and every call of generate_ops returns or    *)
(* raises.                                                                 *)
(***************************************************************************)
C27_Terminates ==
  /\ [][pc = "scan" /\ pc' = "scan" => scan_i' > scan_i]_vars
  /\ <>Returned

\* generate_ops has returned: the scan of the LHS took one iteration for a 1 and
\* one for the wildcard that follows it
C27_Witness ==
  /\ pc = "generated"
  /\ scan_expr = <<"1">> \o Wildcard
  /\ scan_i = Len(scan_expr) + 1
  /\ scan_groups = <<<<>>, Wildcard>>
  /\ input_shape = <<1>>

(***************************************************************************)
(* C24: for an LHS group whose input axis size is symbolic, or one of      *)
(* whose hints is (so that the product of its hints is), generate_ops      *)
(* raises neither the divisibility nor the consistency error, and if the   *)
(* group has one unhinted index the size recorded for it is                *)
(* input_size // known: a symbolic size whose value is the quotient.       *)
(***************************************************************************)
C24_Hinted(group) == SelectSeq(group, LAMBDA a : a \in DOMAIN index_sizes)

\* the axis of LHS group g or the product of its hints is symbolic
C24_SymbolicGroup(g) ==
  \/ ~IsInt(input_shape[g])
  \/ \E n \in DOMAIN C24_Hinted(lhs_grouped[g]) :
       ~IsInt(index_sizes[C24_Hinted(lhs_grouped[g])[n]])

\* the value of the product of the hints of a group
C24_KnownValue(group) ==
  Product([n \in DOMAIN C24_Hinted(group) |-> ValueOf(index_sizes[C24_Hinted(group)[n]])])

C24_SymbolicUnchecked ==
  /\ /\ pc = "error"
     /\ error \in {"Dimension to ungroup is not divisible by its index sizes",
                   "Input shape incompatible with index sizes"}
     => ~C24_SymbolicGroup(j + 1)
  /\ /\ pc = "solve"
     /\ j >= 1
     /\ C24_SymbolicGroup(j)
     /\ Len(Unhinted(lhs_grouped[j])) = 1
     => LET size == inferred_index_sizes[Unhinted(lhs_grouped[j])[1]]
        IN /\ ~IsInt(size)
           /\ ValueOf(size) = ValueOf(input_shape[j]) \div C24_KnownValue(lhs_grouped[j])

\* the loop has passed a first group without unhinted index, symbolic, the value
\* of whose hints is not that of its axis, and a second group with one unhinted
\* index and a symbolic hint whose value does not divide the axis size
C24_Witness ==
  /\ pc = "solve"
  /\ j = 2
  /\ C24_SymbolicGroup(1)
  /\ Unhinted(lhs_grouped[1]) = <<>>
  /\ ValueOf(input_shape[1]) # C24_KnownValue(lhs_grouped[1])
  /\ C24_SymbolicGroup(2)
  /\ IsInt(input_shape[2])
  /\ Len(Unhinted(lhs_grouped[2])) = 1
  /\ ValueOf(input_shape[2]) % C24_KnownValue(lhs_grouped[2]) # 0

(***************************************************************************)
(* C23: in the final Reshape, an RHS group whose product of index sizes is *)
(* not an int and whose letters, sorted, are those of an LHS group gets    *)
(* the input axis size of that LHS group; any other RHS group gets the     *)
(* product of its index sizes.                                             *)
(***************************************************************************)
\* the product of the index sizes of a group is symbolic: one of the sizes is
C23_SymbolicProduct(group) ==
  \E n \in DOMAIN group : ~IsInt(inferred_index_sizes[group[n]])

C23_SameLetters(g, h) ==
  /\ Len(g) = Len(h)
  /\ \A a \in Range(g) \cup Range(h) : Count(g, a) = Count(h, a)

C23_Matching(group) ==
  {h \in DOMAIN lhs_grouped : C23_SameLetters(lhs_grouped[h], group)}

C23_SmartInference ==
  Accepted =>
    LET rhs_grouped == _group_dimensions(rhs).groups
        last == ops[Len(ops)]
    IN \A g \in DOMAIN rhs_grouped :
         IF C23_SymbolicProduct(rhs_grouped[g]) /\ C23_Matching(rhs_grouped[g]) # {}
         THEN \E h \in C23_Matching(rhs_grouped[g]) : last.shape[g] = input_shape[h]
         ELSE IF C23_SymbolicProduct(rhs_grouped[g])
           THEN /\ ~IsInt(last.shape[g])
                /\ ValueOf(last.shape[g])
                     = Product([n \in DOMAIN rhs_grouped[g] |->
                                  ValueOf(inferred_index_sizes[rhs_grouped[g][n]])])
           ELSE last.shape[g] = SizeOf(rhs_grouped[g], inferred_index_sizes)

\* (ij)->(ji) on an axis of an int size above 1 with a symbolic hint: the final
\* Reshape has the int
C23_Witness ==
  /\ Accepted
  /\ lhs = <<"(", "i", "j", ")">>
  /\ rhs = <<"(", "j", "i", ")">>
  /\ IsInt(input_shape[1])
  /\ input_shape[1] > 1
  /\ ~IsInt(inferred_index_sizes["i"])
  /\ ops[Len(ops)] = Reshape(input_shape)

(***************************************************************************)
(* C26: the second pass of optimize, tracking the shape from input_shape   *)
(* through every op's transform_shape, drops a Reshape if and only if the  *)
(* tracked shape before it and its target shape are made of ints only and  *)
(* are equal element by element; a Reshape with a symbolic entry in either *)
(* is kept, and so is every other op.                                      *)
(***************************************************************************)
\* the shape that reaches op n of a sequence applied to a tensor of the shape
RECURSIVE C26_ShapeBefore(_, _, _)
C26_ShapeBefore(s, n, shape) ==
  IF n = 1 THEN shape
  ELSE transform_shape(s[n - 1], C26_ShapeBefore(s, n - 1, shape))

C26_Ints(shape) == \A n \in DOMAIN shape : IsInt(shape[n])

C26_Dropped(s, shape) ==
  {n \in DOMAIN s :
     /\ s[n].op = "Reshape"
     /\ C26_Ints(C26_ShapeBefore(s, n, shape))
     /\ C26_Ints(s[n].shape)
     /\ s[n].shape = C26_ShapeBefore(s, n, shape)}

C26_NoopReshapesElided ==
  pc = "optimized" =>
    LET first == C25_WithoutFollowedReshapes(ops)
    IN optimized = Keep(first, 1, DOMAIN first \ C26_Dropped(first, input_shape))

\* a Reshape to the int shape that reaches it is dropped and, after a Broadcast of
\* a symbolic size, a Reshape to the shape that reaches it is kept
C26_Witness ==
  /\ pc = "optimized"
  /\ Len(ops) = 3
  /\ Len(input_shape) = 1
  /\ ops[1] = Reshape(input_shape)
  /\ 1 \in C26_Dropped(ops, input_shape)
  /\ ops[2].op = "Broadcast"
  /\ ops[3].op = "Reshape"
  /\ ops[3].shape = C26_ShapeBefore(ops, 3, input_shape)
  /\ ~C26_Ints(ops[3].shape)
  /\ optimized = <<ops[2], ops[3]>>

(***************************************************************************)
(* C21: preprocess of the TensorFlow backend returns every op that is not  *)
(* a Broadcast unchanged and in order, and in place of every Broadcast     *)
(* whose keys are positions of its output shape: a Reshape that appends    *)
(* one axis of size 1, only if the last output position is a new axis; a   *)
(* Tile whose multiple for each existing axis is the product of the sizes  *)
(* of the new axes inserted immediately before it; a Reshape to the        *)
(* Broadcast's output shape.  Running the returned ops gives the tensor    *)
(* that running the given ops with the axis-inserting Broadcast gives.     *)
(***************************************************************************)
\* the keys of every Broadcast of the sequence are positions of its output shape
C21_ValidKeys(s, shape) ==
  \A n \in DOMAIN s :
    s[n].op = "Broadcast" =>
      DOMAIN s[n].axis_sizes
        \subseteq 0..(Len(C26_ShapeBefore(s, n, shape)) + Cardinality(DOMAIN s[n].axis_sizes) - 1)

\* the product of the sizes of the new axes at the given output positions
RECURSIVE C21_SizeProduct(_, _)
C21_SizeProduct(axis_sizes, positions) ==
  IF positions = {} THEN 1
  ELSE LET p == CHOOSE q \in positions : TRUE
       IN axis_sizes[p] * C21_SizeProduct(axis_sizes, positions \ {p})

\* what stands for a Broadcast applied to a tensor of the given shape
C21_Replacement(o, shape) ==
  LET new == DOMAIN o.axis_sizes
      rank == Len(shape) + Cardinality(new)
      appended == (rank - 1) \in new
      \* the output position (0-based) of existing axis a (1-based); that of the
      \* appended axis is past the end
      At(a) == IF a = 0 THEN -1
               ELSE IF a > Len(shape) THEN rank
               ELSE CHOOSE p \in (0..(rank - 1)) \ new :
                      Cardinality({q \in (0..(rank - 1)) \ new : q < p}) = a - 1
      axes == Len(shape) + (IF appended THEN 1 ELSE 0)
      multiples == [a \in 1..axes |->
                      C21_SizeProduct(o.axis_sizes, {p \in new : At(a - 1) < p /\ p < At(a)})]
  IN (IF appended THEN <<Reshape(Append(shape, 1))>> ELSE <<>>)
     \o <<Tile(multiples), Reshape(transform_shape(o, shape))>>

RECURSIVE C21_Expected(_, _, _)
C21_Expected(s, n, shape) ==
  IF n > Len(s) THEN <<>>
  ELSE (IF s[n].op = "Broadcast"
        THEN C21_Replacement(s[n], C26_ShapeBefore(s, n, shape))
        ELSE <<s[n]>>)
       \o C21_Expected(s, n + 1, shape)

C21_BroadcastAsTile ==
  /\ calls # <<>> /\ C21_ValidKeys(ops, input_shape) =>
       /\ preprocessed = C21_Expected(ops, 1, input_shape)
       /\ TfRun(preprocessed, Iota(input_shape)) = Run(ops, Iota(input_shape))
  /\ pc = "returned" /\ Run(ops, Iota(input_shape)).err = "none" =>
       exec_value = Run(ops, Iota(input_shape))

\* a Transpose, then a Broadcast of two new axes after the last of two axes that
\* differ in size: the run has returned a tensor of four axes
C21_Witness ==
  /\ pc = "returned"
  /\ Len(input_shape) = 2
  /\ input_shape[1] # input_shape[2]
  /\ Len(ops) = 2
  /\ ops[1] = Transpose(<<1, 0>>)
  /\ ops[2].op = "Broadcast"
  /\ DOMAIN ops[2].axis_sizes = {2, 3}
  /\ Len(preprocessed) = 4
  /\ preprocessed[3].op = "Tile"
  /\ preprocessed[3].multiples[3] > MaxHint
  /\ Len(exec_value.shape) = 4
  /\ exec_value = Run(ops, Iota(input_shape))

====
